---- MODULE Spec2Model ----
(***************************************************************************)
(* A model of the grid world of src/env.js and of the learning agents of  *)
(* src/agent.js: the GridWorld layout, the SignalField (breadth-first      *)
(* distances and the decayed signal), the tabular QLearningAgent and the   *)
(* gradient-indexed SignalQAgent; and of the page of src/main.js: the      *)
(* episode loops, the event handlers, the statistics and the inputs.       *)
(*                                                                         *)
(* JavaScript numbers are modelled as exact rationals <<n, d>> in lowest   *)
(* terms with d > 0; grids are functions row -> column -> value, indexed   *)
(* from 0 as in the source.                                                *)
(***************************************************************************)
EXTENDS Integers, Sequences, FiniteSets, TLC

VARIABLES env, signalField, qAgent, signalAgent, main, last

vars == <<env, signalField, qAgent, signalAgent, main, last>>

(***************************************************************************)
(* Bounds of the model.                                                    *)
(***************************************************************************)
\* layout[0].length of the layouts explored
Cols == 3
\* at most this many wall cells in an explored layout
MaxWalls == 2
\* learn calls explored per behaviour
MaxUpdates == 2

\* layout.length of the layouts explored
Rows == 2

(***************************************************************************)
(* Program constants, src/env.js.                                          *)
(***************************************************************************)
CELL_EMPTY == 0
CELL_WALL == 1
CELL_GOAL == 2
CELL_PIT == 3
NUM_ACTIONS == 4

\* [dRow, dCol] of the actions 0=up, 1=right, 2=down, 3=left; DELTAS[a + 1]
DELTAS == << <<-1, 0>>, <<0, 1>>, <<1, 0>>, <<0, -1>> >>

Actions == 0 .. (NUM_ACTIONS - 1)

(***************************************************************************)
(* Numbers.                                                                *)
(***************************************************************************)
Abs(x) == IF x < 0 THEN -x ELSE x

RECURSIVE GCD(_, _)
GCD(a, b) == IF b = 0 THEN a ELSE GCD(b, a % b)

\* the number n / d, in lowest terms with a positive denominator (d # 0)
Num(n, d) ==
    LET g == GCD(Abs(n), Abs(d))
        s == IF d < 0 THEN -1 ELSE 1
    IN  << (s * n) \div g, (s * d) \div g >>

Zero == Num(0, 1)
Add(x, y) == Num(x[1] * y[2] + y[1] * x[2], x[2] * y[2])
Sub(x, y) == Num(x[1] * y[2] - y[1] * x[2], x[2] * y[2])
Mul(x, y) == Num(x[1] * y[1], x[2] * y[2])
Div(x, y) == Num(x[1] * y[2], x[2] * y[1])
Neg(x) == << -x[1], x[2] >>
Lt(x, y) == x[1] * y[2] < y[1] * x[2]
Gt(x, y) == Lt(y, x)
\* Math.floor
Floor(x) == x[1] \div x[2]
\* Math.max(a, b, c, d)
Max2(x, y) == IF Lt(x, y) THEN y ELSE x
Max4(v) == Max2(Max2(Max2(v[0], v[1]), v[2]), v[3])

(***************************************************************************)
(* Grids and layouts.                                                      *)
(***************************************************************************)
RowIdx == 0 .. (Rows - 1)
ColIdx == 0 .. (Cols - 1)
Cells == RowIdx \X ColIdx

\* the cells in the order of `for r ... for c ...`
CellSeq == [i \in 1 .. (Rows * Cols) |-> << (i - 1) \div Cols, (i - 1) % Cols >>]

CountKind(lay, kinds) == Cardinality({p \in Cells : lay[p[1]][p[2]] \in kinds})

\* An explored layout holds at most as many emitters as there are kinds of
\* emitter: none, one goal, one pit, one of each, or two of one kind.
MaxEmitters == Cardinality({CELL_GOAL, CELL_PIT})

\* the layouts a GridWorld is constructed on
Layouts ==
    {lay \in [RowIdx -> [ColIdx -> {CELL_EMPTY, CELL_WALL, CELL_GOAL, CELL_PIT}]] :
        /\ CountKind(lay, {CELL_WALL}) <= MaxWalls
        /\ CountKind(lay, {CELL_GOAL, CELL_PIT}) <= MaxEmitters
        /\ CountKind(lay, {CELL_EMPTY}) >= 1}

\* the first empty cell of a layout, used as start position
FirstEmpty(lay) ==
    LET idx == {i \in 1 .. (Rows * Cols) : lay[CellSeq[i][1]][CellSeq[i][2]] = CELL_EMPTY}
    IN  CellSeq[CHOOSE i \in idx : \A j \in idx : i <= j]

(***************************************************************************)
(* GridWorld, src/env.js.                                                  *)
(***************************************************************************)
\* new GridWorld(layout, startPos, maxSteps)
NewGridWorld(layout, startPos, maxSteps) ==
    [layout      |-> layout,
     rows        |-> Rows,
     cols        |-> Cols,
     startPos    |-> startPos,
     maxSteps    |-> maxSteps,
     agentRow    |-> startPos[1],
     agentCol    |-> startPos[2],
     done        |-> FALSE,
     totalReward |-> Zero,
     steps       |-> 0]

\* getState()
GetState(e) == <<e.agentRow, e.agentCol>>

\* Variant of reset() that keeps the reward of the episode before.
ResetKeepingReward(e) ==
    [e EXCEPT !.agentRow = e.startPos[1], !.agentCol = e.startPos[2],
              !.done = FALSE, !.steps = 0]

\* reset(); the state it returns is GetState of the result
Reset(e) ==
    [e EXCEPT !.agentRow = e.startPos[1], !.agentCol = e.startPos[2],
              !.done = FALSE, !.totalReward = Zero, !.steps = 0]

\* Variant of the early returns of step() that does not count the step.
BumpedUncounted(e) ==
    [world  |-> [e EXCEPT !.totalReward = Add(@, Num(-1, 100))],
     result |-> [state |-> GetState(e), reward |-> Num(-1, 100), done |-> FALSE]]

\* the two early returns of step(): the agent stays in place, the step is
\* counted and charged, and the timeout check below is not reached
Bumped(e) ==
    [world  |-> [e EXCEPT !.steps = @ + 1, !.totalReward = Add(@, Num(-1, 100))],
     result |-> [state |-> GetState(e), reward |-> Num(-1, 100), done |-> FALSE]]

\* step() that collects the goal or pit it lands on, emptying the cell
StepCollecting(e, action) ==
    LET newRow == e.agentRow + DELTAS[action + 1][1]
        newCol == e.agentCol + DELTAS[action + 1][2]
    IN  IF e.done
          THEN [world  |-> e,
                result |-> [state |-> GetState(e), reward |-> Zero, done |-> TRUE]]
        ELSE IF newRow < 0 \/ newRow >= e.rows \/ newCol < 0 \/ newCol >= e.cols
          THEN Bumped(e)
        ELSE IF e.layout[newRow][newCol] = CELL_WALL
          THEN Bumped(e)
        ELSE LET cell   == e.layout[newRow][newCol]
                 reward == IF cell = CELL_GOAL THEN Num(1, 1)
                           ELSE IF cell = CELL_PIT THEN Num(-1, 1)
                           ELSE Num(-1, 100)
                 done   == cell \in {CELL_GOAL, CELL_PIT} \/ e.steps + 1 >= e.maxSteps
             IN  [world  |-> [e EXCEPT !.agentRow = newRow, !.agentCol = newCol,
                                       !.steps = @ + 1,
                                       !.totalReward = Add(@, reward),
                                       !.done = done,
                                       !.layout[newRow][newCol] = CELL_EMPTY],
                  result |-> [state |-> <<newRow, newCol>>, reward |-> reward,
                              done |-> done]]

\* Variant of step() without the wall check of env.js lines 96-101.
StepThroughWalls(e, action) ==
    LET newRow == e.agentRow + DELTAS[action + 1][1]
        newCol == e.agentCol + DELTAS[action + 1][2]
    IN  IF e.done
          THEN [world  |-> e,
                result |-> [state |-> GetState(e), reward |-> Zero, done |-> TRUE]]
        ELSE IF newRow < 0 \/ newRow >= e.rows \/ newCol < 0 \/ newCol >= e.cols
          THEN Bumped(e)
        ELSE LET cell   == e.layout[newRow][newCol]
                 reward == IF cell = CELL_GOAL THEN Num(1, 1)
                           ELSE IF cell = CELL_PIT THEN Num(-1, 1)
                           ELSE Num(-1, 100)
                 done   == cell \in {CELL_GOAL, CELL_PIT} \/ e.steps + 1 >= e.maxSteps
             IN  [world  |-> [e EXCEPT !.agentRow = newRow, !.agentCol = newCol,
                                       !.steps = @ + 1,
                                       !.totalReward = Add(@, reward),
                                       !.done = done],
                  result |-> [state |-> <<newRow, newCol>>, reward |-> reward,
                              done |-> done]]

\* Variant of step() in which a pit costs its reward but does not end the
\* episode.
StepPitRunsOn(e, action) ==
    LET newRow == e.agentRow + DELTAS[action + 1][1]
        newCol == e.agentCol + DELTAS[action + 1][2]
    IN  IF e.done
          THEN [world  |-> e,
                result |-> [state |-> GetState(e), reward |-> Zero, done |-> TRUE]]
        ELSE IF newRow < 0 \/ newRow >= e.rows \/ newCol < 0 \/ newCol >= e.cols
          THEN Bumped(e)
        ELSE IF e.layout[newRow][newCol] = CELL_WALL
          THEN Bumped(e)
        ELSE LET cell   == e.layout[newRow][newCol]
                 reward == IF cell = CELL_GOAL THEN Num(1, 1)
                           ELSE IF cell = CELL_PIT THEN Num(-1, 1)
                           ELSE Num(-1, 100)
                 done   == cell = CELL_GOAL \/ e.steps + 1 >= e.maxSteps
             IN  [world  |-> [e EXCEPT !.agentRow = newRow, !.agentCol = newCol,
                                       !.steps = @ + 1,
                                       !.totalReward = Add(@, reward),
                                       !.done = done],
                  result |-> [state |-> <<newRow, newCol>>, reward |-> reward,
                              done |-> done]]

\* step(action): the environment after the call and the object it returns
Step(e, action) ==
    LET newRow == e.agentRow + DELTAS[action + 1][1]
        newCol == e.agentCol + DELTAS[action + 1][2]
    IN  IF e.done
          THEN [world  |-> e,
                result |-> [state |-> GetState(e), reward |-> Zero, done |-> TRUE]]
        ELSE IF newRow < 0 \/ newRow >= e.rows \/ newCol < 0 \/ newCol >= e.cols
          THEN Bumped(e)
        ELSE IF e.layout[newRow][newCol] = CELL_WALL
          THEN Bumped(e)
        ELSE LET cell   == e.layout[newRow][newCol]
                 reward == IF cell = CELL_GOAL THEN Num(1, 1)
                           ELSE IF cell = CELL_PIT THEN Num(-1, 1)
                           ELSE Num(-1, 100)
                 done   == cell \in {CELL_GOAL, CELL_PIT} \/ e.steps + 1 >= e.maxSteps
             IN  [world  |-> [e EXCEPT !.agentRow = newRow, !.agentCol = newCol,
                                       !.steps = @ + 1,
                                       !.totalReward = Add(@, reward),
                                       !.done = done],
                  result |-> [state |-> <<newRow, newCol>>, reward |-> reward,
                              done |-> done]]

(***************************************************************************)
(* SignalField, src/env.js.                                                *)
(***************************************************************************)
\* _createGrid(val)
CreateGrid(val) == [r \in RowIdx |-> [c \in ColIdx |-> val]]

\* the emitter list the constructor builds: goals +1, pits -1, row by row
RECURSIVE ScanEmitters(_, _)
ScanEmitters(layout, i) ==
    IF i > Rows * Cols THEN << >>
    ELSE LET r == CellSeq[i][1]
             c == CellSeq[i][2]
             rest == ScanEmitters(layout, i + 1)
         IN  IF layout[r][c] = CELL_GOAL
                 THEN << [row |-> r, col |-> c, strength |-> Num(1, 1)] >> \o rest
             ELSE IF layout[r][c] = CELL_PIT
                 THEN << [row |-> r, col |-> c, strength |-> Num(-1, 1)] >> \o rest
             ELSE rest

\* Variant of BfsNeighbours without the wall test of env.js line 210.
RECURSIVE BfsNeighboursThroughWalls(_, _, _, _, _, _)
BfsNeighboursThroughWalls(layout, st, r, c, d, k) ==
    IF k > Len(DELTAS) THEN st
    ELSE LET nr == r + DELTAS[k][1]
             nc == c + DELTAS[k][2]
         IN  IF nr < 0 \/ nr >= Rows \/ nc < 0 \/ nc >= Cols
                 THEN BfsNeighboursThroughWalls(layout, st, r, c, d, k + 1)
             ELSE IF st.dist[nr][nc] >= 0
                 THEN BfsNeighboursThroughWalls(layout, st, r, c, d, k + 1)
             ELSE BfsNeighboursThroughWalls(layout,
                     [dist  |-> [st.dist EXCEPT ![nr][nc] = d + 1],
                      queue |-> Append(st.queue, <<nr, nc>>)],
                     r, c, d, k + 1)

\* Variant of BfsNeighbours that does not walk onto pits either.
RECURSIVE BfsNeighboursAvoidingPits(_, _, _, _, _, _)
BfsNeighboursAvoidingPits(layout, st, r, c, d, k) ==
    IF k > Len(DELTAS) THEN st
    ELSE LET nr == r + DELTAS[k][1]
             nc == c + DELTAS[k][2]
         IN  IF nr < 0 \/ nr >= Rows \/ nc < 0 \/ nc >= Cols
                 THEN BfsNeighboursAvoidingPits(layout, st, r, c, d, k + 1)
             ELSE IF layout[nr][nc] \in {CELL_WALL, CELL_PIT}
                 THEN BfsNeighboursAvoidingPits(layout, st, r, c, d, k + 1)
             ELSE IF st.dist[nr][nc] >= 0
                 THEN BfsNeighboursAvoidingPits(layout, st, r, c, d, k + 1)
             ELSE BfsNeighboursAvoidingPits(layout,
                     [dist  |-> [st.dist EXCEPT ![nr][nc] = d + 1],
                      queue |-> Append(st.queue, <<nr, nc>>)],
                     r, c, d, k + 1)

\* the body of `for (const [dr, dc] of DELTAS)` for the k-th direction onwards,
\* on the pair (dist, queue); the cell (r, c) was dequeued with distance d
RECURSIVE BfsNeighbours(_, _, _, _, _, _)
BfsNeighbours(layout, st, r, c, d, k) ==
    IF k > Len(DELTAS) THEN st
    ELSE LET nr == r + DELTAS[k][1]
             nc == c + DELTAS[k][2]
         IN  IF nr < 0 \/ nr >= Rows \/ nc < 0 \/ nc >= Cols
                 THEN BfsNeighbours(layout, st, r, c, d, k + 1)
             ELSE IF layout[nr][nc] = CELL_WALL
                 THEN BfsNeighbours(layout, st, r, c, d, k + 1)
             ELSE IF st.dist[nr][nc] >= 0
                 THEN BfsNeighbours(layout, st, r, c, d, k + 1)
             ELSE BfsNeighbours(layout,
                     [dist  |-> [st.dist EXCEPT ![nr][nc] = d + 1],
                      queue |-> Append(st.queue, <<nr, nc>>)],
                     r, c, d, k + 1)

\* `while (head < queue.length)`; head counts from 1 here
RECURSIVE BfsLoop(_, _, _)
BfsLoop(layout, st, head) ==
    IF head > Len(st.queue) THEN st.dist
    ELSE LET r == st.queue[head][1]
             c == st.queue[head][2]
         IN  BfsLoop(layout, BfsNeighbours(layout, st, r, c, st.dist[r][c], 1), head + 1)

\* _bfsDistances(startRow, startCol): the grid of distances, -1 = unreachable
BfsDistances(layout, startRow, startCol) ==
    BfsLoop(layout,
            [dist  |-> [CreateGrid(-1) EXCEPT ![startRow][startCol] = 0],
             queue |-> << <<startRow, startCol>> >>],
            1)

\* Variant of Accumulate that keeps the stronger of the entry and the
\* emitter's signal where env.js line 233 adds them.
AccumulateStronger(field, dist, strength) ==
    [r \in RowIdx |-> [c \in ColIdx |->
        IF dist[r][c] < 0 THEN field[r][c]
        ELSE IF Lt(Mul(field[r][c], field[r][c]),
                   Mul(Div(strength, Num(1 + dist[r][c], 1)),
                       Div(strength, Num(1 + dist[r][c], 1))))
            THEN Div(strength, Num(1 + dist[r][c], 1))
        ELSE field[r][c]]]

\* Variant of Accumulate that assigns (=) where env.js line 233 adds (+=).
AccumulateOverwrite(field, dist, strength) ==
    [r \in RowIdx |-> [c \in ColIdx |->
        IF dist[r][c] < 0 THEN field[r][c]
        ELSE Div(strength, Num(1 + dist[r][c], 1))]]

\* the two inner loops of compute(): one emitter's signal added to the field
Accumulate(field, dist, strength) ==
    [r \in RowIdx |-> [c \in ColIdx |->
        IF dist[r][c] < 0 THEN field[r][c]
        ELSE Add(field[r][c], Div(strength, Num(1 + dist[r][c], 1)))]]

\* `for (const em of this.emitters)` from the i-th emitter onwards
RECURSIVE ComputeLoop(_, _, _, _)
ComputeLoop(layout, emitters, field, i) ==
    IF i > Len(emitters) THEN field
    ELSE LET em == emitters[i]
         IN  ComputeLoop(layout, emitters,
                 Accumulate(field, BfsDistances(layout, em.row, em.col), em.strength),
                 i + 1)

\* Variant of ComputeField without the zeroing of env.js lines 223-225.
ComputeFieldNoZero(layout, emitters, field) == ComputeLoop(layout, emitters, field, 1)

\* compute(): the field is zeroed, then every emitter is accumulated
ComputeField(layout, emitters, field) ==
    ComputeLoop(layout, emitters, [r \in RowIdx |-> [c \in ColIdx |-> Zero]], 1)

\* new SignalField(env)
NewSignalField(e) ==
    LET ems == ScanEmitters(e.layout, 1)
    IN  [rows     |-> e.rows,
         cols     |-> e.cols,
         emitters |-> ems,
         field    |-> ComputeField(e.layout, ems, CreateGrid(Zero))]

\* read(row, col)
Read(sf, row, col) == sf.field[row][col]

\* Variant of GradientLoop without the wall test of env.js line 256.
RECURSIVE GradientLoopThroughWalls(_, _, _, _, _)
GradientLoopThroughWalls(sf, layout, row, col, k) ==
    IF k > Len(DELTAS) THEN << >>
    ELSE LET nr == row + DELTAS[k][1]
             nc == col + DELTAS[k][2]
             rest == GradientLoopThroughWalls(sf, layout, row, col, k + 1)
         IN  IF nr < 0 \/ nr >= sf.rows \/ nc < 0 \/ nc >= sf.cols
                 THEN << sf.field[row][col] >> \o rest
             ELSE << sf.field[nr][nc] >> \o rest

\* gradient(row, col) from the k-th direction onwards: [up, right, down, left]
RECURSIVE GradientLoop(_, _, _, _, _)
GradientLoop(sf, layout, row, col, k) ==
    IF k > Len(DELTAS) THEN << >>
    ELSE LET nr == row + DELTAS[k][1]
             nc == col + DELTAS[k][2]
             rest == GradientLoop(sf, layout, row, col, k + 1)
         IN  IF nr < 0 \/ nr >= sf.rows \/ nc < 0 \/ nc >= sf.cols
                 THEN << sf.field[row][col] >> \o rest
             ELSE IF layout[nr][nc] = CELL_WALL
                 THEN << sf.field[row][col] >> \o rest
             ELSE << sf.field[nr][nc] >> \o rest

\* gradient(row, col)
Gradient(sf, layout, row, col) == GradientLoop(sf, layout, row, col, 1)

(***************************************************************************)
(* The epsilon-greedy choice of act(), src/agent.js.  u1 and u2 are the    *)
(* two values Math.random() returns, each in [0, 1).                       *)
(***************************************************************************)
\* `for (let a = 1; a < NUM_ACTIONS; a++)`: the pair (bestVal, bestActions)
RECURSIVE BestLoop(_, _, _, _)
BestLoop(qValues, a, bestVal, bestActions) ==
    IF a >= NUM_ACTIONS THEN bestActions
    ELSE IF Gt(qValues[a], bestVal) THEN BestLoop(qValues, a + 1, qValues[a], << a >>)
    ELSE IF qValues[a] = bestVal THEN BestLoop(qValues, a + 1, bestVal, Append(bestActions, a))
    ELSE BestLoop(qValues, a + 1, bestVal, bestActions)

BestActions(qValues) == BestLoop(qValues, 1, qValues[0], << 0 >>)

\* Math.floor(Math.random() * n), counted from 0
RandomIndex(u, n) == Floor(Mul(u, Num(n, 1)))

\* `Math.random() < this.epsilon`
Explores(epsilon, u1) == Lt(u1, epsilon)

\* Variant of Exploit that returns the first maximal action (no tie-break).
ExploitFirst(qValues, u2) == BestActions(qValues)[1]

\* the exploiting branch: one of the maximal actions, picked by u2
Exploit(qValues, u2) ==
    BestActions(qValues)[RandomIndex(u2, Len(BestActions(qValues))) + 1]

\* Variant of Explore that draws among the maximal actions only.
ExploreAmongBest(qValues, u2) == Exploit(qValues, u2)

\* the exploring branch: any action, picked by u2
Explore(qValues, u2) == RandomIndex(u2, NUM_ACTIONS)

\* the body of act() once the Q-vector of the state is known
EpsilonGreedy(qValues, epsilon, u1, u2) ==
    IF Explores(epsilon, u1) THEN Explore(qValues, u2) ELSE Exploit(qValues, u2)

(***************************************************************************)
(* QLearningAgent, src/agent.js.                                           *)
(***************************************************************************)
\* new QLearningAgent(rows, cols, { alpha, gamma, epsilon })
NewQLearningAgent(rows, cols, alpha, gamma, epsilon) ==
    [rows         |-> rows,
     cols         |-> cols,
     alpha        |-> alpha,
     gamma        |-> gamma,
     epsilon      |-> epsilon,
     q            |-> [r \in 0 .. (rows - 1) |-> [c \in 0 .. (cols - 1) |->
                          [a \in Actions |-> Zero]]],
     totalUpdates |-> 0]

\* QLearningAgent.act(state)
QAct(agent, state, u1, u2) ==
    EpsilonGreedy(agent.q[state[1]][state[2]], agent.epsilon, u1, u2)

\* Variant of Target that adds the discounted future value after a terminal
\* transition too.
TargetIgnoringDone(gamma, reward, nextQ, done) == Add(reward, Mul(gamma, Max4(nextQ)))

\* Variant of Target that takes the value of the first action of the next
\* state where agent.js line 115 takes the maximum.
TargetFirstAction(gamma, reward, nextQ, done) ==
    IF done THEN reward ELSE Add(reward, Mul(gamma, nextQ[0]))

\* the target of learn(): the reward, plus the discounted best value of the
\* next state unless the episode ended
Target(gamma, reward, nextQ, done) ==
    IF done THEN reward ELSE Add(reward, Mul(gamma, Max4(nextQ)))

\* currentQ + alpha * (target - currentQ)
Nudge(currentQ, alpha, target) == Add(currentQ, Mul(alpha, Sub(target, currentQ)))

\* Variant of QLearn that writes the new value to the four entries of the
\* state where agent.js line 121 writes the entry of the action.
QLearnWholeRow(agent, state, action, reward, nextState, done) ==
    [agent EXCEPT !.q[state[1]][state[2]] =
                      [a \in Actions |->
                          Nudge(agent.q[state[1]][state[2]][action], agent.alpha,
                                Target(agent.gamma, reward,
                                       agent.q[nextState[1]][nextState[2]], done))],
                  !.totalUpdates = @ + 1]

\* QLearningAgent.learn(state, action, reward, nextState, done)
QLearn(agent, state, action, reward, nextState, done) ==
    LET r == state[1]
        c == state[2]
        nr == nextState[1]
        nc == nextState[2]
        currentQ == agent.q[r][c][action]
        target == Target(agent.gamma, reward, agent.q[nr][nc], done)
    IN  [agent EXCEPT !.q[r][c][action] = Nudge(currentQ, agent.alpha, target),
                      !.totalUpdates = @ + 1]

\* Variant of GetQ that returns the row of the table itself.
GetQRow(agent, row, col) ==
    [object |-> [kind |-> "row", row |-> row, col |-> col], values |-> agent.q[row][col]]

\* QLearningAgent.getQ(row, col): Array.from makes a new array of the four
\* values; `object` tells which array the caller holds
GetQ(agent, row, col) ==
    [object |-> [kind |-> "new"], values |-> [a \in Actions |-> agent.q[row][col][a]]]

\* QLearningAgent.getMaxQ(row, col)
GetMaxQ(agent, row, col) == Max4(agent.q[row][col])

\* Variant of QResetQ that leaves the last column of the table as it is.
QResetQShort(agent) ==
    [agent EXCEPT !.q = [r \in 0 .. (agent.rows - 1) |-> [c \in 0 .. (agent.cols - 1) |->
                            IF c < agent.cols - 1 THEN [a \in Actions |-> Zero]
                            ELSE agent.q[r][c]]],
                  !.totalUpdates = 0]

\* QLearningAgent.resetQ()
QResetQ(agent) ==
    [agent EXCEPT !.q = [r \in 0 .. (agent.rows - 1) |-> [c \in 0 .. (agent.cols - 1) |->
                            [a \in Actions |-> Zero]]],
                  !.totalUpdates = 0]

(***************************************************************************)
(* SignalQAgent, src/agent.js.                                             *)
(***************************************************************************)
\* new SignalQAgent(signalField, { alpha, gamma, epsilon, threshold })
NewSignalQAgent(alpha, gamma, epsilon, threshold) ==
    [alpha        |-> alpha,
     gamma        |-> gamma,
     epsilon      |-> epsilon,
     threshold    |-> threshold,
     numStates    |-> 81,
     q            |-> [i \in 0 .. 80 |-> [a \in Actions |-> Zero]],
     totalUpdates |-> 0]

\* Variant of Bin that puts a delta equal to the threshold in the outer bins.
BinInclusive(delta, threshold) ==
    IF ~Gt(delta, Neg(threshold)) THEN 0
    ELSE IF ~Lt(delta, threshold) THEN 2
    ELSE 1

\* the bin of one direction: 0 worse, 2 better, 1 neutral
Bin(delta, threshold) ==
    IF Lt(delta, Neg(threshold)) THEN 0
    ELSE IF Gt(delta, threshold) THEN 2
    ELSE 1

\* Variant of multipliers with right given the place of left.
multipliersCollide == << 27, 1, 3, 1 >>

\* Variant of multipliers with the place values of base 4.
multipliersBase4 == << 64, 16, 4, 1 >>

\* Variant of multipliers with up and right exchanged.
multipliersSwapped == << 9, 27, 3, 1 >>

\* base-3 place values of [up, right, down, left]
multipliers == << 27, 9, 3, 1 >>

\* `for (let d = 0; d < 4; d++)` of _stateIndex, from direction d onwards
RECURSIVE IndexLoop(_, _, _, _, _)
IndexLoop(neighbors, here, threshold, d, index) ==
    IF d >= 4 THEN index
    ELSE IndexLoop(neighbors, here, threshold, d + 1,
                   index + Bin(Sub(neighbors[d + 1], here), threshold) * multipliers[d + 1])

\* SignalQAgent._stateIndex(gridState)
StateIndex(agent, sf, layout, gridState) ==
    IndexLoop(Gradient(sf, layout, gridState[1], gridState[2]),
              Read(sf, gridState[1], gridState[2]),
              agent.threshold, 0, 0)

\* SignalQAgent.act(gridState)
SignalAct(agent, sf, layout, gridState, u1, u2) ==
    EpsilonGreedy(agent.q[StateIndex(agent, sf, layout, gridState)], agent.epsilon, u1, u2)

\* Variant of SignalLearnAt that takes the best value of the state's own row
\* where agent.js line 252 takes the row of the next state.
SignalLearnAtOwnRow(agent, s, ns, action, reward, done) ==
    [agent EXCEPT !.q[s][action] =
                      Nudge(agent.q[s][action], agent.alpha,
                            Target(agent.gamma, reward, agent.q[s], done)),
                  !.totalUpdates = @ + 1]

\* the body of SignalQAgent.learn once s and ns are computed (lines 246-258)
SignalLearnAt(agent, s, ns, action, reward, done) ==
    [agent EXCEPT !.q[s][action] =
                      Nudge(agent.q[s][action], agent.alpha,
                            Target(agent.gamma, reward, agent.q[ns], done)),
                  !.totalUpdates = @ + 1]

\* SignalQAgent.learn(gridState, action, reward, nextGridState, done)
SignalLearn(agent, sf, layout, gridState, action, reward, nextGridState, done) ==
    SignalLearnAt(agent, StateIndex(agent, sf, layout, gridState),
                  StateIndex(agent, sf, layout, nextGridState), action, reward, done)

\* SignalQAgent.resetQ()
SignalResetQ(agent) ==
    [agent EXCEPT !.q = [s \in 0 .. (agent.numStates - 1) |-> [a \in Actions |-> Zero]],
                  !.totalUpdates = 0]

(***************************************************************************)
(* The place of an agent that is not constructed.                          *)
(***************************************************************************)
Idle == [op |-> "none"]

\* The place of the page state where main.js is not loaded.
NotLoaded == [running |-> FALSE]

\* main.js constructs the environment with the default step limit
DefaultMaxSteps == 200

InitEnv(layout) == env = NewGridWorld(layout, FirstEmpty(layout), DefaultMaxSteps)

(***************************************************************************)
(* SpecField: a SignalField on every explored layout; compute() and        *)
(* _bfsDistances() are called in any order.                                *)
(***************************************************************************)
InitField ==
    /\ main = NotLoaded
    /\ \E layout \in Layouts : InitEnv(layout)
    /\ signalField = NewSignalField(env)
    /\ qAgent = Idle
    /\ signalAgent = Idle
    /\ last = [op |-> "new SignalField"]

\* Variant of compute() that keeps the field of the first computation.
ComputeCached ==
    /\ signalField' = signalField
    /\ last' = [op |-> "compute", changed |-> FALSE]
    /\ UNCHANGED <<env, qAgent, signalAgent, main>>

\* compute(); `changed` tells whether the call left another field than it found
Compute ==
    /\ signalField' = [signalField EXCEPT
                          !.field = ComputeField(env.layout, signalField.emitters, @)]
    /\ last' = [op |-> "compute", changed |-> signalField'.field # signalField.field]
    /\ UNCHANGED <<env, qAgent, signalAgent, main>>

Bfs(startRow, startCol) ==
    /\ env.layout[startRow][startCol] # CELL_WALL
    /\ last' = [op |-> "_bfsDistances", startRow |-> startRow, startCol |-> startCol,
                dist |-> BfsDistances(env.layout, startRow, startCol)]
    /\ UNCHANGED <<env, signalField, qAgent, signalAgent, main>>

\* read(row, col) on a cell of the grid
CallRead(row, col) ==
    /\ last' = [op |-> "read", row |-> row, col |-> col,
                value |-> Read(signalField, row, col)]
    /\ UNCHANGED <<env, signalField, qAgent, signalAgent, main>>

\* gradient(row, col) on a cell of the grid
CallGradient(row, col) ==
    /\ last' = [op |-> "gradient", row |-> row, col |-> col,
                values |-> Gradient(signalField, env.layout, row, col)]
    /\ UNCHANGED <<env, signalField, qAgent, signalAgent, main>>

NextField ==
    \/ Compute
    \/ \E p \in Cells : Bfs(p[1], p[2])
    \/ \E p \in Cells : CallRead(p[1], p[2])
    \/ \E p \in Cells : CallGradient(p[1], p[2])

SpecField == InitField /\ [][NextField]_vars

(***************************************************************************)
(* SpecLayout: the holder of the layout array changes one cell of it after *)
(* the SignalField is constructed; the environment and the field hold the  *)
(* array by reference (this.layout, this.env), so both see the change.     *)
(* compute() is then called any number of times.                           *)
(***************************************************************************)
CellKinds == {CELL_EMPTY, CELL_WALL, CELL_GOAL, CELL_PIT}

\* layout[row][col] = kind, written by the holder of the array
SetCell(row, col, kind) ==
    /\ last.op = "new SignalField"
    /\ env.layout[row][col] # kind
    /\ env' = [env EXCEPT !.layout[row][col] = kind]
    /\ last' = [op |-> "layout changed", row |-> row, col |-> col, kind |-> kind]
    /\ UNCHANGED <<signalField, qAgent, signalAgent, main>>

NextLayout ==
    \/ \E p \in Cells, kind \in CellKinds : SetCell(p[1], p[2], kind)
    \/ Compute

SpecLayout == InitField /\ [][NextLayout]_vars

(***************************************************************************)
(* Inputs of the agents.                                                   *)
(***************************************************************************)
\* the rewards GridWorld.step hands out: goal and cost of living
Rewards == {Num(1, 1), Num(-1, 100)}

\* values of Math.random(): for the draw that picks an action, and for the
\* draw compared with epsilon
Draws == {Num(0, 1), Num(1, 4), Num(1, 2), Num(3, 4)}
ExploreDraws == {Num(0, 1), Num(1, 2)}

\* learning rate and discount of the explored agents
LearnAlpha == Num(1, 2)
LearnGamma == Num(9, 10)

\* exploration probabilities: never, sometimes, always (1 and beyond)
Epsilons == {Num(0, 1), Num(1, 2), Num(1, 1), Num(3, 2)}

\* binning widths: the default 0.05, a width some deltas equal exactly, zero
\* and a negative width
Thresholds == {Num(1, 20), Num(1, 6), Num(0, 1), Num(-1, 6)}

\* the grid states handed to act and learn: the two ends of the last row
AgentStates == {<<Rows - 1, 0>>, <<Rows - 1, Cols - 1>>}

(***************************************************************************)
(* SpecIndex: a SignalQAgent on every explored layout with every explored  *)
(* threshold; _stateIndex is called on any cell that is not a wall.        *)
(***************************************************************************)
InitIndex ==
    /\ main = NotLoaded
    /\ \E layout \in Layouts : InitEnv(layout)
    /\ signalField = NewSignalField(env)
    /\ qAgent = Idle
    /\ \E threshold \in Thresholds :
          signalAgent = NewSignalQAgent(LearnAlpha, LearnGamma, Num(1, 10), threshold)
    /\ last = [op |-> "new SignalQAgent"]

CallStateIndex(gridState) ==
    /\ env.layout[gridState[1]][gridState[2]] # CELL_WALL
    /\ last' = [op |-> "_stateIndex", gridState |-> gridState,
                index |-> StateIndex(signalAgent, signalField, env.layout, gridState)]
    /\ UNCHANGED <<env, signalField, qAgent, signalAgent, main>>

NextIndex == \E p \in Cells : CallStateIndex(p)

SpecIndex == InitIndex /\ [][NextIndex]_vars

(***************************************************************************)
(* SpecAgents: the program constructs one of the two agents, with every    *)
(* explored epsilon (and threshold); act and learn of the constructed      *)
(* agent are called in any order, learn MaxUpdates times at most.          *)
(***************************************************************************)
\* the layout of the agents: one goal, in the first row
GoalLayout == [CreateGrid(CELL_EMPTY) EXCEPT ![0][1] = CELL_GOAL]

\* the (epsilon, threshold) settings of the explored SignalQAgents
SignalSettings == { << Num(0, 1), Num(1, 20) >>, << Num(1, 2), Num(1, 6) >>,
                    << Num(3, 2), Num(1, 20) >> }

InitAgents ==
    /\ main = NotLoaded
    /\ InitEnv(GoalLayout)
    /\ signalField = NewSignalField(env)
    /\ \/ /\ \E epsilon \in Epsilons :
                qAgent = NewQLearningAgent(env.rows, env.cols, LearnAlpha, LearnGamma,
                                           epsilon)
          /\ signalAgent = Idle
          /\ last = [op |-> "new QLearningAgent"]
       \/ /\ qAgent = Idle
          /\ \E setting \in SignalSettings :
                signalAgent = NewSignalQAgent(LearnAlpha, LearnGamma,
                                              setting[1], setting[2])
          /\ last = [op |-> "new SignalQAgent"]

CallQAct(state, u1, u2) ==
    /\ qAgent # Idle
    /\ last' = [op |-> "act", agent |-> "QLearningAgent", state |-> state,
                u1 |-> u1, u2 |-> u2,
                qValues |-> qAgent.q[state[1]][state[2]],
                action |-> QAct(qAgent, state, u1, u2)]
    /\ UNCHANGED <<env, signalField, qAgent, signalAgent, main>>

CallQLearn(state, action, reward, nextState, done) ==
    /\ qAgent # Idle
    /\ qAgent.totalUpdates < MaxUpdates
    /\ qAgent' = QLearn(qAgent, state, action, reward, nextState, done)
    /\ last' = [op |-> "learn", agent |-> "QLearningAgent", state |-> state,
                action |-> action, reward |-> reward, nextState |-> nextState,
                done |-> done]
    /\ UNCHANGED <<env, signalField, signalAgent, main>>

CallSignalAct(gridState, u1, u2) ==
    /\ signalAgent # Idle
    /\ last' = [op |-> "act", agent |-> "SignalQAgent", state |-> gridState,
                u1 |-> u1, u2 |-> u2,
                qValues |-> signalAgent.q[StateIndex(signalAgent, signalField,
                                                     env.layout, gridState)],
                action |-> SignalAct(signalAgent, signalField, env.layout,
                                     gridState, u1, u2)]
    /\ UNCHANGED <<env, signalField, qAgent, signalAgent, main>>

CallSignalLearn(gridState, action, reward, nextGridState, done) ==
    /\ signalAgent # Idle
    /\ signalAgent.totalUpdates < MaxUpdates
    /\ signalAgent' = SignalLearn(signalAgent, signalField, env.layout,
                                  gridState, action, reward, nextGridState, done)
    /\ last' = [op |-> "learn", agent |-> "SignalQAgent", state |-> gridState,
                action |-> action, reward |-> reward, nextState |-> nextGridState,
                done |-> done]
    /\ UNCHANGED <<env, signalField, qAgent, main>>

\* resetQ(); `updates` is the count of learn calls the table held
CallQResetQ ==
    /\ qAgent # Idle
    /\ qAgent' = QResetQ(qAgent)
    /\ last' = [op |-> "resetQ", agent |-> "QLearningAgent",
                updates |-> qAgent.totalUpdates]
    /\ UNCHANGED <<env, signalField, signalAgent, main>>

CallSignalResetQ ==
    /\ signalAgent # Idle
    /\ signalAgent' = SignalResetQ(signalAgent)
    /\ last' = [op |-> "resetQ", agent |-> "SignalQAgent",
                updates |-> signalAgent.totalUpdates]
    /\ UNCHANGED <<env, signalField, qAgent, main>>

\* the value a caller writes into an array getQ returned
Writes == {Num(5, 1)}

CallGetQ(row, col) ==
    /\ qAgent # Idle
    /\ last' = [op |-> "getQ", row |-> row, col |-> col,
                result |-> GetQ(qAgent, row, col)]
    /\ UNCHANGED <<env, signalField, qAgent, signalAgent, main>>

CallGetMaxQ(row, col) ==
    /\ qAgent # Idle
    /\ last' = [op |-> "getMaxQ", row |-> row, col |-> col,
                value |-> GetMaxQ(qAgent, row, col)]
    /\ UNCHANGED <<env, signalField, qAgent, signalAgent, main>>

\* the caller of getQ assigns v to element a of the array it was handed: the
\* assignment lands in the table when that array is a row of the table
WriteReturned(a, v) ==
    /\ last.op = "getQ"
    /\ qAgent' = IF last.result.object.kind = "row"
                     THEN [qAgent EXCEPT
                              !.q[last.result.object.row][last.result.object.col][a] = v]
                 ELSE qAgent
    /\ last' = [op |-> "write returned", row |-> last.row, col |-> last.col,
                index |-> a, values |-> [last.result.values EXCEPT ![a] = v]]
    /\ UNCHANGED <<env, signalField, signalAgent, main>>

NextAgents ==
    \/ \E s \in AgentStates, u1 \in ExploreDraws, u2 \in Draws : CallQAct(s, u1, u2)
    \/ \E s, ns \in AgentStates, a \in Actions, r \in Rewards, done \in BOOLEAN :
          CallQLearn(s, a, r, ns, done)
    \/ \E s \in AgentStates, u1 \in ExploreDraws, u2 \in Draws :
          CallSignalAct(s, u1, u2)
    \/ \E s, ns \in AgentStates, a \in Actions, r \in Rewards, done \in BOOLEAN :
          CallSignalLearn(s, a, r, ns, done)
    \/ CallQResetQ
    \/ CallSignalResetQ
    \/ \E s \in AgentStates : CallGetQ(s[1], s[2])
    \/ \E s \in AgentStates : CallGetMaxQ(s[1], s[2])
    \/ \E a \in Actions, v \in Writes : WriteReturned(a, v)

SpecAgents == InitAgents /\ [][NextAgents]_vars

(***************************************************************************)
(* SpecWorld: the episode loop of main.js on a GridWorld with a small step *)
(* limit, with a SignalField and a SignalQAgent reading the same layout.   *)
(* The agent and the field are called at the environment's state, and      *)
(* learn() takes what step() returned, as the loop passes it.              *)
(***************************************************************************)
\* the step limit the environment is constructed with
WorldMaxSteps == 2

\* step() calls explored in one episode
MaxStepCalls == 3

\* learn() calls explored along the episodes
WorldUpdates == 1

\* the start of the default layout: the bottom-left corner
WorldStart == <<Rows - 1, 0>>

\* one goal in the top-right corner, as in the default layout, and at most
\* one pit or one wall elsewhere
WorldLayouts ==
    {layout \in Layouts :
        /\ layout[0][Cols - 1] = CELL_GOAL
        /\ layout[WorldStart[1]][WorldStart[2]] = CELL_EMPTY
        /\ CountKind(layout, {CELL_GOAL}) = 1
        /\ CountKind(layout, {CELL_PIT, CELL_WALL}) <= 1}

InitWorld ==
    /\ main = NotLoaded
    /\ \E layout \in WorldLayouts : env = NewGridWorld(layout, WorldStart, WorldMaxSteps)
    /\ signalField = NewSignalField(env)
    /\ qAgent = Idle
    /\ signalAgent = NewSignalQAgent(LearnAlpha, LearnGamma, Num(1, 2), Num(1, 20))
    /\ last = [op |-> "new GridWorld"]

\* env.reset()
CallReset ==
    /\ env' = Reset(env)
    /\ last' = [op |-> "reset", state |-> GetState(env')]
    /\ UNCHANGED <<signalField, qAgent, signalAgent, main>>

\* env.step(action); `state` and `steps` are the position and the count the
\* call started from
CallStep(action) ==
    /\ env.steps < MaxStepCalls
    /\ env' = Step(env, action).world
    /\ last' = [op |-> "step", state |-> GetState(env), steps |-> env.steps,
                action |-> action, result |-> Step(env, action).result]
    /\ UNCHANGED <<signalField, qAgent, signalAgent, main>>

\* agent.learn(state, action, result.reward, result.state, result.done)
LearnFromStep ==
    /\ last.op = "step"
    /\ signalAgent.totalUpdates < WorldUpdates
    /\ CallSignalLearn(last.state, last.action, last.result.reward,
                       last.result.state, last.result.done)

NextWorld ==
    \/ \E action \in Actions : CallStep(action)
    \/ CallReset
    \/ LearnFromStep
    \/ \E u1 \in ExploreDraws : CallSignalAct(GetState(env), u1, Zero)
    \/ CallStateIndex(GetState(env))
    \/ CallRead(env.agentRow, env.agentCol)
    \/ CallGradient(env.agentRow, env.agentCol)
    \/ Bfs(env.agentRow, env.agentCol)
    \/ Compute

SpecWorld == InitWorld /\ [][NextWorld]_vars

(***************************************************************************)
(* The hyperparameter inputs of the page, src/main.js.  The text of an     *)
(* input is a sequence of characters; Number() and || are modelled by what *)
(* they do on it.                                                          *)
(***************************************************************************)
\* longest text typed into an input
MaxTextLen == 2

Digits10 == {"0", "5"}
Chars == Digits10 \cup {".", "a"}

Texts == UNION {[1 .. n -> Chars] : n \in 0 .. MaxTextLen}

\* the value NaN; every other number is a fraction with denominator >= 1
NaN == <<0, 0>>

DigitValue(ch) == IF ch = "5" THEN 5 ELSE 0

\* the digits of text from position i on, read as a decimal fraction of the
\* unit `scale` (1/10 for the first digit after the point)
RECURSIVE FractionFrom(_, _, _)
FractionFrom(text, i, scale) ==
    IF i > Len(text) THEN Zero
    ELSE Add(Mul(Num(DigitValue(text[i]), 1), scale),
             FractionFrom(text, i + 1, Mul(scale, Num(1, 10))))

\* the digits text[1 .. n] read as a whole number
RECURSIVE WholeUpTo(_, _)
WholeUpTo(text, n) ==
    IF n = 0 THEN 0 ELSE 10 * WholeUpTo(text, n - 1) + DigitValue(text[n])

\* Number(text) for a text of digits, points and letters: the empty text is
\* 0, a decimal literal with at least one digit is its value, the rest NaN
NumberOf(text) ==
    LET points == {i \in 1 .. Len(text) : text[i] = "."}
        digits == {i \in 1 .. Len(text) : text[i] \in Digits10}
    IN  IF Len(text) = 0 THEN Zero
        ELSE IF points \cup digits # 1 .. Len(text) THEN NaN
        ELSE IF Cardinality(points) > 1 \/ digits = {} THEN NaN
        ELSE IF points = {} THEN Num(WholeUpTo(text, Len(text)), 1)
        ELSE LET dot == CHOOSE i \in points : TRUE
             IN  Add(Num(WholeUpTo(text, dot - 1), 1),
                     FractionFrom(text, dot + 1, Num(1, 10)))

\* x || fallback on numbers: 0 and NaN are falsy
OrDefault(x, fallback) == IF x = NaN \/ x = Zero THEN fallback ELSE x

\* syncQParams()
SyncQParams(agent, inputs) ==
    [agent EXCEPT !.alpha   = OrDefault(NumberOf(inputs.alpha), Num(1, 10)),
                  !.gamma   = OrDefault(NumberOf(inputs.gamma), Num(95, 100)),
                  !.epsilon = OrDefault(NumberOf(inputs.epsilon), Num(1, 10))]

\* the three inputs that carry a change listener
ParamIds == {"alpha", "gamma", "epsilon"}

\* the text the inputs start with
InitialText == <<".", "5">>

(***************************************************************************)
(* SpecParams: main.js is loaded and the user retypes the inputs; every    *)
(* change event calls syncQParams.                                         *)
(***************************************************************************)
InitParams ==
    /\ InitEnv(GoalLayout)
    /\ signalField = NewSignalField(env)
    /\ qAgent = NewQLearningAgent(env.rows, env.cols, Num(1, 10), Num(95, 100),
                                  Num(1, 10))
    /\ signalAgent = Idle
    /\ main = [running |-> FALSE, inputs |-> [id \in ParamIds |-> InitialText]]
    /\ last = [op |-> "load"]

\* the change listener of input `id`, fired after the user typed `text`
ChangeParam(id, text) ==
    /\ main.inputs[id] # text
    /\ main' = [main EXCEPT !.inputs[id] = text]
    /\ qAgent' = SyncQParams(qAgent, main'.inputs)
    /\ last' = [op |-> "syncQParams", id |-> id, text |-> text]
    /\ UNCHANGED <<env, signalField, signalAgent>>

NextParams == \E id \in ParamIds, text \in Texts : ChangeParam(id, text)

SpecParams == InitParams /\ [][NextParams]_vars

(***************************************************************************)
(* SpecMain: the page of src/main.js.  `main` holds the module state       *)
(* (running, stats), the disabled flag of the four buttons, the agent      *)
(* selector, and the place and the locals of the episode loop.  JavaScript *)
(* runs one handler at a time: a handler is entered only when no other is  *)
(* running (pc = "idle") or when runOneEpisode is suspended at its await   *)
(* (pc = "sleep"); between these points the loop runs call by call.        *)
(***************************************************************************)
\* episodes counted before the run buttons are no longer pressed
MaxEpisodes == 2

\* learn() calls of the Q-learning agent explored since the last resetQ
MainUpdates == 3

\* the n of runBatch(n)
BatchEpisodes == 2

\* start in the bottom-left corner, a goal and a pit one move away from the
\* cell above and from the start
MainLayout == [CreateGrid(CELL_EMPTY) EXCEPT ![0][1] = CELL_GOAL, ![Rows - 1][1] = CELL_PIT]

ZeroStats ==
    [episodes |-> 0, totalSteps |-> 0, totalReward |-> Zero,
     goals |-> 0, pits |-> 0, timeouts |-> 0]

\* Variant of recordEpisode that counts every episode off the goal as a pit.
RecordEpisodeNoTimeouts(stats, e) ==
    LET cell == e.layout[e.agentRow][e.agentCol]
    IN  [stats EXCEPT !.episodes = @ + 1,
                      !.totalSteps = @ + e.steps,
                      !.totalReward = Add(@, e.totalReward),
                      !.goals = IF cell = CELL_GOAL THEN @ + 1 ELSE @,
                      !.pits = IF cell # CELL_GOAL THEN @ + 1 ELSE @,
                      !.timeouts = IF cell # CELL_GOAL /\ cell # CELL_PIT
                                     THEN @ + 1 ELSE @]

\* recordEpisode(env)
RecordEpisode(stats, e) ==
    LET cell == e.layout[e.agentRow][e.agentCol]
    IN  [stats EXCEPT !.episodes = @ + 1,
                      !.totalSteps = @ + e.steps,
                      !.totalReward = Add(@, e.totalReward),
                      !.goals = IF cell = CELL_GOAL THEN @ + 1 ELSE @,
                      !.pits = IF cell # CELL_GOAL /\ cell = CELL_PIT THEN @ + 1 ELSE @,
                      !.timeouts = IF cell # CELL_GOAL /\ cell # CELL_PIT
                                     THEN @ + 1 ELSE @]

\* the locals of the loop body outside an iteration
NoLocals == [state |-> << >>, action |-> -1, result |-> << >>]

\* a handler may be entered: nothing runs, or runOneEpisode waits in sleep()
LoopFree == main.pc \in {"idle", "sleep"}

InitMain ==
    /\ env = NewGridWorld(MainLayout, WorldStart, WorldMaxSteps)
    /\ signalField = NewSignalField(env)
    /\ qAgent = NewQLearningAgent(env.rows, env.cols, Num(1, 10), Num(95, 100),
                                  Num(1, 10))
    /\ signalAgent = Idle
    /\ \E sel \in {"qlearn", "random"} :
          main = [running |-> FALSE, disabled |-> FALSE, stats |-> ZeroStats,
                  inputs |-> [id \in ParamIds |-> InitialText],
                  agentSelect |-> sel,
                  pc |-> "idle", handler |-> "none", i |-> 0, n |-> 0,
                  locals |-> NoLocals]
    /\ last = [op |-> "load"]

\* the synchronous head of runOneEpisode(), up to the first turn of the loop
RunOneEpisode ==
    /\ LoopFree
    /\ main.stats.episodes < MaxEpisodes
    /\ IF main.running
         THEN /\ last' = [op |-> "runOneEpisode", entered |-> FALSE]
              /\ UNCHANGED <<env, qAgent, main>>
         ELSE /\ main' = [main EXCEPT !.running = TRUE, !.disabled = TRUE,
                                      !.pc = "act", !.handler = "runOneEpisode"]
              /\ qAgent' = SyncQParams(qAgent, main.inputs)
              /\ env' = Reset(env)
              /\ last' = [op |-> "runOneEpisode", entered |-> TRUE]
    /\ UNCHANGED <<signalField, signalAgent>>

\* the head of runBatch(n), up to the first turn of the loop of episode 0
RunBatch(n) ==
    /\ LoopFree
    /\ main.stats.episodes < MaxEpisodes
    /\ IF main.running
         THEN /\ last' = [op |-> "runBatch", entered |-> FALSE]
              /\ UNCHANGED <<env, qAgent, main>>
         ELSE /\ main' = [main EXCEPT !.pc = "act", !.handler = "runBatch",
                                      !.i = 0, !.n = n]
              /\ qAgent' = SyncQParams(qAgent, main.inputs)
              /\ env' = Reset(env)
              /\ last' = [op |-> "runBatch", entered |-> TRUE]
    /\ UNCHANGED <<signalField, signalAgent>>

\* const state = env.getState(); const action = agent.act(state);
LoopAct(u1, u2) ==
    /\ main.pc = "act"
    /\ qAgent.totalUpdates < MainUpdates
    /\ LET state  == GetState(env)
           action == IF main.agentSelect = "qlearn"
                       THEN QAct(qAgent, state, u1, u2)
                       ELSE Floor(Mul(u2, Num(NUM_ACTIONS, 1)))
       IN  /\ main' = [main EXCEPT !.pc = "step", !.locals.state = state,
                                   !.locals.action = action]
           /\ last' = [op |-> "act", in |-> main.handler, state |-> state,
                       action |-> action]
    /\ UNCHANGED <<env, signalField, qAgent, signalAgent>>

\* const result = env.step(action);
LoopStep ==
    /\ main.pc = "step"
    /\ env.steps < MaxStepCalls
    /\ env' = Step(env, main.locals.action).world
    /\ main' = [main EXCEPT !.pc = "learn",
                            !.locals.result = Step(env, main.locals.action).result]
    /\ last' = [op |-> "step", in |-> main.handler, state |-> GetState(env),
                action |-> main.locals.action,
                result |-> Step(env, main.locals.action).result]
    /\ UNCHANGED <<signalField, qAgent, signalAgent>>

\* Variant of the learn call of the loop that hands over the state read
\* before the step as the next state.
LoopLearnOnOldState ==
    /\ main.pc = "learn"
    /\ qAgent' = IF main.agentSelect = "qlearn"
                   THEN QLearn(qAgent, main.locals.state, main.locals.action,
                               main.locals.result.reward, main.locals.state,
                               main.locals.result.done)
                   ELSE qAgent
    /\ main' = [main EXCEPT !.locals = NoLocals,
                            !.pc = IF main.handler = "runOneEpisode" THEN "sleep"
                                   ELSE IF env.done THEN "record" ELSE "act"]
    /\ last' = [op |-> "learn", in |-> main.handler, state |-> main.locals.state,
                action |-> main.locals.action, reward |-> main.locals.result.reward,
                nextState |-> main.locals.state,
                done |-> main.locals.result.done]
    /\ UNCHANGED <<env, signalField, signalAgent>>

\* agent.learn(state, action, result.reward, result.state, result.done); then
\* runOneEpisode draws and awaits sleep(), runBatch tests the loop condition
LoopLearn ==
    /\ main.pc = "learn"
    /\ qAgent' = IF main.agentSelect = "qlearn"
                   THEN QLearn(qAgent, main.locals.state, main.locals.action,
                               main.locals.result.reward, main.locals.result.state,
                               main.locals.result.done)
                   ELSE qAgent
    /\ main' = [main EXCEPT !.locals = NoLocals,
                            !.pc = IF main.handler = "runOneEpisode" THEN "sleep"
                                   ELSE IF env.done THEN "record" ELSE "act"]
    /\ last' = [op |-> "learn", in |-> main.handler, state |-> main.locals.state,
                action |-> main.locals.action, reward |-> main.locals.result.reward,
                nextState |-> main.locals.result.state,
                done |-> main.locals.result.done]
    /\ UNCHANGED <<env, signalField, signalAgent>>

\* the timer of sleep() fires: runOneEpisode resumes at the loop condition
Resume ==
    /\ main.pc = "sleep"
    /\ main' = [main EXCEPT !.pc = IF env.done THEN "record" ELSE "act"]
    /\ last' = [op |-> "resume"]
    /\ UNCHANGED <<env, signalField, qAgent, signalAgent>>

\* after the loop: recordEpisode(env); runOneEpisode then clears running and
\* enables the buttons, runBatch goes on to the next episode or returns
EndEpisode ==
    /\ main.pc = "record"
    /\ LET counted == RecordEpisode(main.stats, env)
       IN  IF main.handler = "runOneEpisode"
             THEN /\ main' = [main EXCEPT !.stats = counted, !.running = FALSE,
                                          !.disabled = FALSE, !.pc = "idle",
                                          !.handler = "none"]
                  /\ env' = env
             ELSE IF main.i + 1 < main.n
             THEN /\ main' = [main EXCEPT !.stats = counted, !.i = @ + 1, !.pc = "act"]
                  /\ env' = Reset(env)
             ELSE /\ main' = [main EXCEPT !.stats = counted, !.i = 0, !.n = 0,
                                          !.pc = "idle", !.handler = "none"]
                  /\ env' = env
    /\ last' = [op |-> "recordEpisode", in |-> main.handler,
                cell |-> env.layout[env.agentRow][env.agentCol],
                steps |-> env.steps]
    /\ UNCHANGED <<signalField, qAgent, signalAgent>>

\* the keys the keydown listener tells apart, and one other key
Keys == {"ArrowUp", "ArrowRight", "ArrowDown", "ArrowLeft", "r", "x"}

KeyAction(key) ==
    IF key = "ArrowUp" THEN 0
    ELSE IF key = "ArrowRight" THEN 1
    ELSE IF key = "ArrowDown" THEN 2
    ELSE IF key = "ArrowLeft" THEN 3
    ELSE -1

\* Variant of the keydown listener without `if (running) return`.
KeydownWhileRunning(key) ==
    /\ LoopFree
    /\ KeyAction(key) # -1 => env.steps < MaxStepCalls
    /\ IF key = "r" THEN env' = Reset(env)
       ELSE IF KeyAction(key) = -1 THEN env' = env
       ELSE env' = Step(env, KeyAction(key)).world
    /\ last' = [op |-> "keydown", key |-> key, entered |-> ~main.running]
    /\ UNCHANGED <<signalField, qAgent, signalAgent, main>>

\* the keydown listener
Keydown(key) ==
    /\ LoopFree
    /\ (~main.running /\ KeyAction(key) # -1) => env.steps < MaxStepCalls
    /\ IF main.running THEN env' = env
       ELSE IF key = "r" THEN env' = Reset(env)
       ELSE IF KeyAction(key) = -1 THEN env' = env
       ELSE env' = Step(env, KeyAction(key)).world
    /\ last' = [op |-> "keydown", key |-> key, entered |-> ~main.running]
    /\ UNCHANGED <<signalField, qAgent, signalAgent, main>>

\* the click listener of the resetStats button; a disabled button gets no click
ClickResetStats ==
    /\ LoopFree
    /\ ~main.disabled
    /\ main' = [main EXCEPT !.stats = ZeroStats]
    /\ env' = Reset(env)
    /\ last' = [op |-> "resetStats click"]
    /\ UNCHANGED <<signalField, qAgent, signalAgent>>

\* the click listener of the resetQ button
ClickResetQ ==
    /\ LoopFree
    /\ ~main.disabled
    /\ qAgent' = QResetQ(qAgent)
    /\ main' = [main EXCEPT !.stats = ZeroStats]
    /\ env' = Reset(env)
    /\ last' = [op |-> "resetQ click"]
    /\ UNCHANGED <<signalField, signalAgent>>

NextMain ==
    \/ RunOneEpisode
    \/ RunBatch(BatchEpisodes)
    \/ \E u1 \in ExploreDraws, u2 \in Draws : LoopAct(u1, u2)
    \/ LoopStep
    \/ LoopLearn
    \/ Resume
    \/ EndEpisode
    \/ \E key \in Keys : Keydown(key)
    \/ ClickResetStats
    \/ ClickResetQ

SpecMain == InitMain /\ [][NextMain]_vars

(***************************************************************************)
(* Walks on the layout, stated without the queue of _bfsDistances.         *)
(***************************************************************************)
Manhattan(p, q) == Abs(p[1] - q[1]) + Abs(p[2] - q[2])

\* one more than the least of a non-empty set of lengths; -1 for the empty set
NextAfterLeast(S) ==
    IF S = {} THEN -1 ELSE 1 + CHOOSE m \in S : \A x \in S : m <= x

\* The length of the shortest walk from start to q, given the lengths d of
\* walks already known to reach the other cells (-1 = none known): a walk
\* enters q from a cell one unit step away, and q must not be a wall.
ShortestVia(layout, d, start, q) ==
    IF q = start THEN 0
    ELSE IF layout[q[1]][q[2]] = CELL_WALL THEN -1
    ELSE NextAfterLeast({d[p] : p \in {x \in Cells : Manhattan(x, q) = 1 /\ d[x] >= 0}})

\* every cell from the i-th on revised once
RECURSIVE Revise(_, _, _, _)
Revise(layout, d, start, i) ==
    IF i > Rows * Cols THEN d
    ELSE Revise(layout,
                [d EXCEPT ![CellSeq[i]] = ShortestVia(layout, d, start, CellSeq[i])],
                start, i + 1)

\* revision repeated until nothing changes
RECURSIVE Settle(_, _, _, _)
Settle(layout, d, revised, start) ==
    IF revised = d THEN d
    ELSE Settle(layout, revised, Revise(layout, revised, start, 1), start)

\* for every cell the length of the shortest walk from start whose steps
\* enter in-bounds cells that are not walls, -1 when there is none
WalkDistances(layout, start) ==
    Settle(layout, [p \in Cells |-> -1], [p \in Cells |-> IF p = start THEN 0 ELSE -1],
           start)

WalkDistance(layout, start, p) == WalkDistances(layout, start)[p]

\* the goal and pit cells of a layout, and their strengths
EmitterCells(layout) == {e \in Cells : layout[e[1]][e[2]] \in {CELL_GOAL, CELL_PIT}}
Strength(layout, e) == IF layout[e[1]][e[2]] = CELL_GOAL THEN Num(1, 1) ELSE Num(-1, 1)

\* strength / (1 + d) of emitter e at walk distance d, 0 when d = -1
Decay(layout, e, d) == IF d < 0 THEN Zero ELSE Div(Strength(layout, e), Num(1 + d, 1))

\* the emitters es, each with the walk distances from it
RECURSIVE EmitterDistances(_, _)
EmitterDistances(layout, es) ==
    IF es = {} THEN << >>
    ELSE LET e == CHOOSE x \in es : TRUE
         IN  << [cell |-> e, dist |-> WalkDistances(layout, e)] >>
                 \o EmitterDistances(layout, es \ {e})

\* the sum over the emitters of their decayed strength at cell p
RECURSIVE DecaySum(_, _, _, _)
DecaySum(layout, eds, i, p) ==
    IF i > Len(eds) THEN Zero
    ELSE Add(Decay(layout, eds[i].cell, eds[i].dist[p]), DecaySum(layout, eds, i + 1, p))

(***************************************************************************)
(* C1. After construction and after every compute(), each field entry is   *)
(* the sum over the goal (+1) and pit (-1) cells of strength / (1 + d), d  *)
(* the shortest wall-avoiding walk from the emitter to the cell; an        *)
(* emitter that cannot reach the cell contributes 0.                       *)
(***************************************************************************)
FieldIsDecaySum(layout, field, eds) ==
    \A p \in Cells : field[p[1]][p[2]] = DecaySum(layout, eds, 1, p)

C1_FieldIsDecaySum ==
    FieldIsDecaySum(env.layout, signalField.field,
                    EmitterDistances(env.layout, EmitterCells(env.layout)))

\* compute() has run on a layout with two emitters, and some cell gets the
\* signal of one of them (at a distance >= 1) and nothing from the other
C1_Witness ==
    /\ last.op = "compute"
    /\ \E p \in Cells, e1, e2 \in EmitterCells(env.layout) :
          /\ WalkDistance(env.layout, e1, p) = -1
          /\ WalkDistance(env.layout, e2, p) >= 1
          /\ signalField.field[p[1]][p[2]] =
                 Decay(env.layout, e2, WalkDistance(env.layout, e2, p))
          /\ signalField.field[p[1]][p[2]] # Zero

(***************************************************************************)
(* C2. _bfsDistances(startRow, startCol) gives every cell the length of    *)
(* the shortest walk from the start cell through in-bounds non-wall cells, *)
(* 0 at the start cell and -1 where no such walk exists.                   *)
(***************************************************************************)
SameDistances(dist, wd) == \A p \in Cells : dist[p[1]][p[2]] = wd[p]

C2_BfsIsWalkDistance ==
    last.op = "_bfsDistances" =>
        /\ last.dist[last.startRow][last.startCol] = 0
        /\ SameDistances(last.dist,
                         WalkDistances(env.layout, <<last.startRow, last.startCol>>))

\* a search in which a wall blocks the straight line to a cell that a detour
\* reaches, and in which some cell is not reached at all
C2_Witness ==
    /\ last.op = "_bfsDistances"
    /\ \E p \in Cells :
          last.dist[p[1]][p[2]] > Manhattan(<<last.startRow, last.startCol>>, p)
    /\ \E p \in Cells : last.dist[p[1]][p[2]] = -1

(***************************************************************************)
(* The calls of act and learn, read from `last`.                           *)
(***************************************************************************)
LearnCalled(l, agentName) == l.op = "learn" /\ l.agent = agentName
ActCalled(l) == l.op = "act"

\* the epsilon of the constructed agent
AgentEpsilon == IF qAgent # Idle THEN qAgent.epsilon ELSE signalAgent.epsilon

\* the greatest of the four values of a Q-vector
Greatest(v) == CHOOSE m \in {v[a] : a \in Actions} : \A b \in Actions : ~Lt(m, v[b])

\* old + alpha * (target - old), target = reward when done and
\* reward + gamma * (greatest value of the next state) otherwise
Updated(old, alpha, gamma, reward, nextQ, done) ==
    Add(old, Mul(alpha, Sub(IF done THEN reward
                            ELSE Add(reward, Mul(gamma, Greatest(nextQ))), old)))

(***************************************************************************)
(* C3. QLearningAgent.learn((r,c), action, reward, (nr,nc), done) sets     *)
(* Q[r][c][action] to old + alpha * (target - old): old is the entry       *)
(* before the call, target is reward when done and otherwise reward +      *)
(* gamma * max of Q[nr][nc] as it was before the write, also when the next *)
(* state is the state itself.                                              *)
(***************************************************************************)
C3_LearnUpdate ==
    [][LearnCalled(last', "QLearningAgent") =>
          qAgent'.q[last'.state[1]][last'.state[2]][last'.action] =
              Updated(qAgent.q[last'.state[1]][last'.state[2]][last'.action],
                      qAgent.alpha, qAgent.gamma, last'.reward,
                      qAgent.q[last'.nextState[1]][last'.nextState[2]],
                      last'.done)]_vars

\* the second of two learn calls on the same entry with reward 1, the next
\* state being the state itself and not terminal: 39/40 is
\* 1/2 + 1/2 * (1 + 9/10 * 1/2 - 1/2), with the maximum 1/2 read before the
\* write
C3_Witness ==
    /\ LearnCalled(last, "QLearningAgent")
    /\ ~last.done
    /\ last.nextState = last.state
    /\ last.reward = Num(1, 1)
    /\ qAgent.totalUpdates = 2
    /\ qAgent.q[last.state[1]][last.state[2]][last.action] = Num(39, 40)

(***************************************************************************)
(* C4. For both agents, learn with done = true sets the updated entry to   *)
(* Q[s][a] + alpha * (r - Q[s][a]) whatever is stored for the next state:  *)
(* a table that differs in the next state's entries only (the updated      *)
(* entry aside) gets the same updated value.                               *)
(***************************************************************************)
\* rows to put in the place of the next state's row
OtherRows == {[a \in Actions |-> Num(7, 1)], [a \in Actions |-> Num(a - 2, 3)]}

\* row, keeping the entry to update when it lies in the row replaced
KeepEntry(row, sameRow, action, old) == IF sameRow THEN [row EXCEPT ![action] = old] ELSE row

TerminalQLearn(l) ==
    LET r == l.state[1]
        c == l.state[2]
        old == qAgent.q[r][c][l.action]
        new == Add(old, Mul(qAgent.alpha, Sub(l.reward, old)))
    IN  /\ qAgent'.q[r][c][l.action] = new
        /\ \A row \in OtherRows :
              QLearn([qAgent EXCEPT !.q[l.nextState[1]][l.nextState[2]] =
                         KeepEntry(row, l.nextState = l.state, l.action, old)],
                     l.state, l.action, l.reward, l.nextState, TRUE).q[r][c][l.action] = new

TerminalSignalLearnAt(l, s, ns) ==
    LET old == signalAgent.q[s][l.action]
        new == Add(old, Mul(signalAgent.alpha, Sub(l.reward, old)))
    IN  /\ signalAgent'.q[s][l.action] = new
        /\ \A row \in OtherRows :
              SignalLearn([signalAgent EXCEPT !.q[ns] = KeepEntry(row, ns = s, l.action, old)],
                          signalField, env.layout, l.state, l.action, l.reward,
                          l.nextState, TRUE).q[s][l.action] = new

C4_TerminalUpdate ==
    [][/\ (LearnCalled(last', "QLearningAgent") /\ last'.done) => TerminalQLearn(last')
       /\ (LearnCalled(last', "SignalQAgent") /\ last'.done) =>
              TerminalSignalLearnAt(last',
                  StateIndex(signalAgent, signalField, env.layout, last'.state),
                  StateIndex(signalAgent, signalField, env.layout, last'.nextState))]_vars

\* a terminal learn of the SignalQAgent whose next state has another index
\* and a row with a learned (non-zero) greatest value
C4_Witness ==
    /\ LearnCalled(last, "SignalQAgent")
    /\ last.done
    /\ StateIndex(signalAgent, signalField, env.layout, last.nextState) #
           StateIndex(signalAgent, signalField, env.layout, last.state)
    /\ Greatest(signalAgent.q[StateIndex(signalAgent, signalField, env.layout,
                                         last.nextState)]) # Zero
    /\ signalAgent.q[StateIndex(signalAgent, signalField, env.layout, last.state)]
           [last.action] = Mul(signalAgent.alpha, last.reward)

(***************************************************************************)
(* act, called again in the state reached: with other draws, and on a      *)
(* table whose row for the state is replaced.                              *)
(***************************************************************************)
ActResult(l, u1, u2) ==
    IF l.agent = "QLearningAgent" THEN QAct(qAgent, l.state, u1, u2)
    ELSE SignalAct(signalAgent, signalField, env.layout, l.state, u1, u2)

ActOnRow(l, row) ==
    IF l.agent = "QLearningAgent"
        THEN QAct([qAgent EXCEPT !.q[l.state[1]][l.state[2]] = row], l.state, l.u1, l.u2)
    ELSE SignalAct([signalAgent EXCEPT
                       !.q[StateIndex(signalAgent, signalField, env.layout, l.state)] = row],
                   signalField, env.layout, l.state, l.u1, l.u2)

\* the actions whose value is the greatest of the four
MaxActions(v) == {a \in Actions : v[a] = Greatest(v)}

(***************************************************************************)
(* C5. When act does not explore (the draw is not below epsilon; always    *)
(* when epsilon = 0) the actions it can return are exactly the actions of  *)
(* maximal Q-value in the current state: the action returned is maximal,   *)
(* and every maximal action is returned for some draw - each of the four   *)
(* on an all-zero row.                                                     *)
(***************************************************************************)
C5_ExploitIsArgmax ==
    (ActCalled(last) /\ (~Lt(last.u1, AgentEpsilon) \/ AgentEpsilon = Zero)) =>
        /\ last.action \in MaxActions(last.qValues)
        /\ \A a \in MaxActions(last.qValues) :
              \E u2 \in Draws : ActResult(last, last.u1, u2) = a
        /\ (\A a \in Actions : last.qValues[a] = Zero) => MaxActions(last.qValues) = Actions

\* act exploits on a row with two maximal actions and returns the second
C5_Witness ==
    /\ ActCalled(last)
    /\ ~Lt(last.u1, AgentEpsilon)
    /\ Cardinality(MaxActions(last.qValues)) = 2
    /\ \E a \in MaxActions(last.qValues) : a < last.action

(***************************************************************************)
(* C6. When act explores (the draw is below epsilon; always when epsilon   *)
(* >= 1) the action returned is one of 0..3, each of the four is returned  *)
(* for some draw, and the Q-values play no part: an agent with another     *)
(* table and the same draws returns the same action.                       *)
(***************************************************************************)
C6_ExploreIgnoresTable ==
    (ActCalled(last) /\ (Lt(last.u1, AgentEpsilon) \/ ~Lt(AgentEpsilon, Num(1, 1)))) =>
        /\ last.action \in 0 .. 3
        /\ \A a \in 0 .. 3 : \E u2 \in Draws : ActResult(last, last.u1, u2) = a
        /\ \A row \in OtherRows : ActOnRow(last, row) = last.action

\* act explores on a row with one maximal action and returns another action
C6_Witness ==
    /\ ActCalled(last)
    /\ Lt(last.u1, AgentEpsilon)
    /\ Cardinality(MaxActions(last.qValues)) = 1
    /\ last.action \notin MaxActions(last.qValues)

(***************************************************************************)
(* The four directions and their bins, stated from the field.              *)
(***************************************************************************)
Up == << -1, 0 >>
Right == << 0, 1 >>
Down == << 1, 0 >>
Left == << 0, -1 >>
Directions == << Up, Right, Down, Left >>

\* the field value one step from p in direction dir; the value at p itself
\* when that step leaves the grid or enters a wall
SignalToward(sf, layout, p, dir) ==
    IF /\ << p[1] + dir[1], p[2] + dir[2] >> \in Cells
       /\ layout[p[1] + dir[1]][p[2] + dir[2]] # CELL_WALL
        THEN sf.field[p[1] + dir[1]][p[2] + dir[2]]
    ELSE sf.field[p[1]][p[2]]

DeltaToward(sf, layout, p, dir) == Sub(SignalToward(sf, layout, p, dir), sf.field[p[1]][p[2]])

\* 0 if delta < -threshold, 2 if delta > threshold, otherwise 1
BinOf(delta, threshold) ==
    IF Lt(delta, Neg(threshold)) THEN 0 ELSE IF Lt(threshold, delta) THEN 2 ELSE 1

\* the bins of [up, right, down, left] at p
BinsAt(sf, layout, threshold, p) ==
    [k \in 1 .. 4 |-> BinOf(DeltaToward(sf, layout, p, Directions[k]), threshold)]

\* the base-3 digits [up, right, down, left] of an index
Digits(index) == << (index \div 27) % 3, (index \div 9) % 3, (index \div 3) % 3, index % 3 >>

IndexCalled(l) == l.op = "_stateIndex"

(***************************************************************************)
(* C7. _stateIndex(row, col) is 27*b_up + 9*b_right + 3*b_down + b_left,   *)
(* b the bin of the direction's delta (gradient value minus read(row,col)):*)
(* 0 below -threshold, 2 above threshold, 1 otherwise.  It depends on the  *)
(* position, the field and the threshold only: not on the table, epsilon   *)
(* or the count of updates.                                                *)
(***************************************************************************)
IndexFromBins(b) == 27 * b[1] + 9 * b[2] + 3 * b[3] + 1 * b[4]

C7_IndexIsBase3 ==
    IndexCalled(last) =>
        /\ last.index = IndexFromBins(BinsAt(signalField, env.layout,
                                             signalAgent.threshold, last.gridState))
        /\ \A row \in OtherRows :
              StateIndex([signalAgent EXCEPT !.q = [i \in 0 .. 80 |-> row],
                                             !.epsilon = Num(1, 1),
                                             !.totalUpdates = 5],
                         signalField, env.layout, last.gridState) = last.index

\* _stateIndex on a cell where up and right fall in different bins and the
\* three bins all occur
C7_Witness ==
    /\ IndexCalled(last)
    /\ Digits(last.index)[1] # Digits(last.index)[2]
    /\ {Digits(last.index)[k] : k \in 1 .. 4} = {0, 1, 2}
    /\ last.index = IndexFromBins(BinsAt(signalField, env.layout,
                                         signalAgent.threshold, last.gridState))

(***************************************************************************)
(* C8. For every in-bounds position, field and threshold _stateIndex       *)
(* returns an integer in 0..80, so Q[index] is a row of 4 entries of the   *)
(* 81-row table; a position whose 4 deltas are all within the threshold    *)
(* gets the index 40.                                                      *)
(***************************************************************************)
WithinThreshold(delta, threshold) == ~Lt(threshold, delta) /\ ~Lt(delta, Neg(threshold))

AllWithinThreshold(sf, layout, threshold, p) ==
    \A k \in 1 .. 4 : WithinThreshold(DeltaToward(sf, layout, p, Directions[k]), threshold)

C8_IndexInRange ==
    IndexCalled(last) =>
        /\ last.index \in 0 .. 80
        /\ last.index \in DOMAIN signalAgent.q
        /\ DOMAIN signalAgent.q[last.index] = 0 .. 3
        /\ Cardinality(DOMAIN signalAgent.q) = 81
        /\ AllWithinThreshold(signalField, env.layout, signalAgent.threshold,
                              last.gridState) => last.index = 40

\* _stateIndex gives 40 on a cell whose deltas are within the threshold and
\* not all zero
C8_Witness ==
    /\ IndexCalled(last)
    /\ last.index = 40
    /\ AllWithinThreshold(signalField, env.layout, signalAgent.threshold, last.gridState)
    /\ \E k \in 1 .. 4 :
          DeltaToward(signalField, env.layout, last.gridState, Directions[k]) # Zero

(***************************************************************************)
(* C9. A direction whose delta equals +threshold or -threshold exactly is  *)
(* put in the neutral bin (1).  As claimed: for every threshold the agent  *)
(* accepts.  As it holds: for every threshold that is not negative.        *)
(***************************************************************************)
AtThresholdIsNeutral(l, sf, layout, threshold) ==
    \A k \in 1 .. 4 :
        (\/ DeltaToward(sf, layout, l.gridState, Directions[k]) = threshold
         \/ DeltaToward(sf, layout, l.gridState, Directions[k]) = Neg(threshold))
            => Digits(l.index)[k] = 1

C9_AtThresholdNeutralAnyThreshold ==
    IndexCalled(last) =>
        AtThresholdIsNeutral(last, signalField, env.layout, signalAgent.threshold)

C9_AtThresholdNeutral ==
    (IndexCalled(last) /\ ~Lt(signalAgent.threshold, Zero)) =>
        AtThresholdIsNeutral(last, signalField, env.layout, signalAgent.threshold)

\* _stateIndex with a positive threshold on a cell with a delta equal to
\* +threshold, binned neutral
C9_Witness ==
    /\ IndexCalled(last)
    /\ Lt(Zero, signalAgent.threshold)
    /\ \E k \in 1 .. 4 :
          /\ DeltaToward(signalField, env.layout, last.gridState, Directions[k]) =
                 signalAgent.threshold
          /\ Digits(last.index)[k] = 1

(***************************************************************************)
(* C10. Two grid positions have the same _stateIndex exactly when their 4  *)
(* direction bins are identical, and such positions share learned values:  *)
(* after SignalQAgent.learn on a transition starting at one of them, the   *)
(* Q-vector act uses at the other is the updated vector.                   *)
(***************************************************************************)
\* the row of the table act reads at position p
ActVector(agent, sf, layout, p) == agent.q[StateIndex(agent, sf, layout, p)]

\* the position of the call `last`, of index s and bins b, and any position
\* p: equal index exactly for equal bins, and act at the position of the
\* call reads the row of every position of equal bins
SharedOnAct(l, s, b) ==
    \A p \in Cells :
        /\ (StateIndex(signalAgent, signalField, env.layout, p) = s)
               <=> (BinsAt(signalField, env.layout, signalAgent.threshold, p) = b)
        /\ (ActCalled(l) /\ BinsAt(signalField, env.layout, signalAgent.threshold, p) = b)
               => l.qValues = ActVector(signalAgent, signalField, env.layout, p)

\* the row of the start position with the entry of the action updated
UpdatedVector(l, s, ns) ==
    [signalAgent.q[s] EXCEPT ![l.action] =
        Updated(signalAgent.q[s][l.action], signalAgent.alpha, signalAgent.gamma,
                l.reward, signalAgent.q[ns], l.done)]

SharedOnLearn(l, b, updated) ==
    \A p \in Cells :
        (BinsAt(signalField, env.layout, signalAgent.threshold, p) = b)
            => ActVector(signalAgent', signalField', env'.layout, p) = updated

C10_SameBinsShareRow ==
    /\ []((last.op \in {"act", "learn"} /\ last.agent = "SignalQAgent") =>
             SharedOnAct(last,
                 StateIndex(signalAgent, signalField, env.layout, last.state),
                 BinsAt(signalField, env.layout, signalAgent.threshold, last.state)))
    /\ [][LearnCalled(last', "SignalQAgent") =>
             SharedOnLearn(last',
                 BinsAt(signalField, env.layout, signalAgent.threshold, last'.state),
                 UpdatedVector(last',
                     StateIndex(signalAgent, signalField, env.layout, last'.state),
                     StateIndex(signalAgent, signalField, env.layout, last'.nextState)))]_vars

\* learn has updated the row that act reads at another position of the same
\* bins
C10_Witness ==
    /\ LearnCalled(last, "SignalQAgent")
    /\ \E p \in Cells \ {last.state} :
          /\ BinsAt(signalField, env.layout, signalAgent.threshold, p) =
                 BinsAt(signalField, env.layout, signalAgent.threshold, last.state)
          /\ ActVector(signalAgent, signalField, env.layout, p)[last.action] # Zero
          /\ ActVector(signalAgent, signalField, env.layout, p) =
                 ActVector(signalAgent, signalField, env.layout, last.state)

(***************************************************************************)
(* C11. SignalQAgent.learn is the update of QLearningAgent.learn on the    *)
(* table addressed by state index: with s and ns the indices of the state  *)
(* and the next state, Q[s][action] becomes old + alpha * (target - old),  *)
(* target = reward when done and reward + gamma * max(Q[ns]) otherwise,    *)
(* the max taken before the write, also when s = ns.                       *)
(***************************************************************************)
\* the index of position p, from the bins of the field
IndexAt(p) == IndexFromBins(BinsAt(signalField, env.layout, signalAgent.threshold, p))

\* the table of the SignalQAgent as the table of a QLearningAgent on a grid
\* of one row, the state index being the column
AsQLearningAgent(agent) ==
    [rows |-> 1, cols |-> 81, alpha |-> agent.alpha, gamma |-> agent.gamma,
     epsilon |-> agent.epsilon, q |-> [r \in {0} |-> agent.q],
     totalUpdates |-> agent.totalUpdates]

SameUpdateAt(l, s, ns) ==
    /\ signalAgent'.q[s][l.action] =
           Updated(signalAgent.q[s][l.action], signalAgent.alpha, signalAgent.gamma,
                   l.reward, signalAgent.q[ns], l.done)
    /\ signalAgent'.q =
           QLearn(AsQLearningAgent(signalAgent), << 0, s >>, l.action, l.reward,
                  << 0, ns >>, l.done).q[0]

C11_SignalLearnIsQLearn ==
    [][LearnCalled(last', "SignalQAgent") =>
          SameUpdateAt(last', IndexAt(last'.state), IndexAt(last'.nextState))]_vars

\* the second of two learn calls on the same entry with reward 1, the next
\* position having the index of the position and the call not terminal:
\* 39/40 needs the maximum 1/2 read before the write
C11_Witness ==
    /\ LearnCalled(last, "SignalQAgent")
    /\ ~last.done
    /\ IndexAt(last.nextState) = IndexAt(last.state)
    /\ last.reward = Num(1, 1)
    /\ signalAgent.totalUpdates = 2
    /\ signalAgent.q[IndexAt(last.state)][last.action] = Num(39, 40)

(***************************************************************************)
(* C12. gradient(row, col) returns 4 values in the order [up, right, down, *)
(* left]: the field value of the neighbour where the neighbour is in       *)
(* bounds and not a wall, and read(row, col) itself where it is out of     *)
(* bounds or a wall.                                                       *)
(***************************************************************************)
GradientCalled(l) == l.op = "gradient"

C12_GradientPolicy ==
    GradientCalled(last) =>
        /\ DOMAIN last.values = 1 .. 4
        /\ \A k \in 1 .. 4 :
              last.values[k] =
                  SignalToward(signalField, env.layout, << last.row, last.col >>,
                               Directions[k])

\* gradient at the corner (0, 0) with a wall to the right and a free cell
\* below: up, right and left give the cell's own non-zero value, down another
C12_Witness ==
    /\ GradientCalled(last)
    /\ last.row = 0 /\ last.col = 0
    /\ env.layout[0][1] = CELL_WALL
    /\ env.layout[1][0] # CELL_WALL
    /\ signalField.field[0][0] # Zero
    /\ last.values[1] = signalField.field[0][0]
    /\ last.values[2] = signalField.field[0][0]
    /\ last.values[4] = signalField.field[0][0]
    /\ last.values[3] = signalField.field[1][0]
    /\ last.values[3] # signalField.field[0][0]

(***************************************************************************)
(* C13. For a fixed layout the field computed with the emitters {A, B} is, *)
(* cell by cell, the sum of the field computed with A alone and the field  *)
(* computed with B alone.                                                  *)
(***************************************************************************)
\* the layout with the cell of emitter em emptied
WithoutEmitter(layout, em) == [layout EXCEPT ![em.row][em.col] = CELL_EMPTY]

\* the field a SignalField constructed on the layout holds
FieldOn(layout) == NewSignalField(NewGridWorld(layout, FirstEmpty(layout),
                                               DefaultMaxSteps)).field

IsSumOfFields(field, fieldA, fieldB) ==
    \A p \in Cells : field[p[1]][p[2]] = Add(fieldA[p[1]][p[2]], fieldB[p[1]][p[2]])

C13_Superposition ==
    Len(signalField.emitters) = 2 =>
        /\ IsSumOfFields(signalField.field,
               ComputeField(env.layout, << signalField.emitters[1] >>, signalField.field),
               ComputeField(env.layout, << signalField.emitters[2] >>, signalField.field))
        /\ IsSumOfFields(signalField.field,
               FieldOn(WithoutEmitter(env.layout, signalField.emitters[2])),
               FieldOn(WithoutEmitter(env.layout, signalField.emitters[1])))

\* compute() has run with a goal and a pit that both reach some cell where
\* their signals do not cancel
C13_Witness ==
    /\ last.op = "compute"
    /\ Len(signalField.emitters) = 2
    /\ signalField.emitters[1].strength # signalField.emitters[2].strength
    /\ \E p \in Cells :
          /\ FieldOn(WithoutEmitter(env.layout, signalField.emitters[2]))[p[1]][p[2]] # Zero
          /\ FieldOn(WithoutEmitter(env.layout, signalField.emitters[1]))[p[1]][p[2]] # Zero
          /\ signalField.field[p[1]][p[2]] # Zero

(***************************************************************************)
(* C14. compute() is idempotent and deterministic: on an unchanged layout  *)
(* any number of compute() calls leaves every field entry at its value     *)
(* after the first computation; values do not accumulate across calls.     *)
(***************************************************************************)
C14_ComputeIdempotent ==
    /\ [](signalField.field = FieldOn(env.layout))
    /\ [][last'.op = "compute" => signalField'.field = signalField.field]_vars

\* compute() has run again after the computation of the constructor, on a
\* field with a non-zero entry
C14_Witness ==
    /\ last.op = "compute"
    /\ \E p \in Cells : signalField.field[p[1]][p[2]] # Zero
    /\ signalField.field = FieldOn(env.layout)

(***************************************************************************)
(* C15. After resetQ(), following any sequence of learn calls, every entry *)
(* of the agent's table reads 0 - rows * cols * 4 entries of the           *)
(* QLearningAgent, 81 * 4 of the SignalQAgent - and alpha, gamma, epsilon  *)
(* (and threshold) are as before the call.                                 *)
(***************************************************************************)
ResetCalled(l, agentName) == l.op = "resetQ" /\ l.agent = agentName

AllZeroQ(agent) ==
    /\ DOMAIN agent.q = 0 .. (Rows - 1)
    /\ \A r \in 0 .. (Rows - 1) :
          /\ DOMAIN agent.q[r] = 0 .. (Cols - 1)
          /\ \A c \in 0 .. (Cols - 1) :
                /\ DOMAIN agent.q[r][c] = 0 .. 3
                /\ \A a \in 0 .. 3 : agent.q[r][c][a] = Zero

AllZeroSignal(agent) ==
    /\ DOMAIN agent.q = 0 .. 80
    /\ \A s \in 0 .. 80 :
          /\ DOMAIN agent.q[s] = 0 .. 3
          /\ \A a \in 0 .. 3 : agent.q[s][a] = Zero

SameSettings(before, after) ==
    /\ after.alpha = before.alpha
    /\ after.gamma = before.gamma
    /\ after.epsilon = before.epsilon

C15_ResetQZeroes ==
    /\ [](/\ ResetCalled(last, "QLearningAgent") => AllZeroQ(qAgent)
          /\ ResetCalled(last, "SignalQAgent") => AllZeroSignal(signalAgent))
    /\ [][/\ ResetCalled(last', "QLearningAgent") => SameSettings(qAgent, qAgent')
          /\ ResetCalled(last', "SignalQAgent") =>
                 /\ SameSettings(signalAgent, signalAgent')
                 /\ signalAgent'.threshold = signalAgent.threshold]_vars

\* resetQ() of the QLearningAgent after two learn calls, with an epsilon
\* that is not the default
C15_Witness ==
    /\ ResetCalled(last, "QLearningAgent")
    /\ last.updates = 2
    /\ qAgent.epsilon = Num(1, 2)
    /\ AllZeroQ(qAgent)

(***************************************************************************)
(* C16. A learn call changes at most one table entry, Q[state][action]:    *)
(* every other entry and the hyperparameters are as before, and            *)
(* totalUpdates is greater by exactly 1.                                   *)
(***************************************************************************)
QFrame(l) ==
    /\ \A r \in 0 .. (Rows - 1), c \in 0 .. (Cols - 1), a \in 0 .. 3 :
          (<< r, c >> # l.state \/ a # l.action) => qAgent'.q[r][c][a] = qAgent.q[r][c][a]
    /\ DOMAIN qAgent'.q = DOMAIN qAgent.q
    /\ SameSettings(qAgent, qAgent')
    /\ qAgent'.rows = qAgent.rows /\ qAgent'.cols = qAgent.cols
    /\ qAgent'.totalUpdates = qAgent.totalUpdates + 1

SignalFrame(l, s) ==
    /\ \A i \in 0 .. 80, a \in 0 .. 3 :
          (i # s \/ a # l.action) => signalAgent'.q[i][a] = signalAgent.q[i][a]
    /\ DOMAIN signalAgent'.q = DOMAIN signalAgent.q
    /\ SameSettings(signalAgent, signalAgent')
    /\ signalAgent'.threshold = signalAgent.threshold
    /\ signalAgent'.numStates = signalAgent.numStates
    /\ signalAgent'.totalUpdates = signalAgent.totalUpdates + 1

C16_LearnFrame ==
    [][/\ LearnCalled(last', "QLearningAgent") => QFrame(last')
       /\ LearnCalled(last', "SignalQAgent") => SignalFrame(last', IndexAt(last'.state))]_vars

\* the second learn call of the QLearningAgent: the entry of the first call,
\* for another action of the same state, is still there
C16_Witness ==
    /\ LearnCalled(last, "QLearningAgent")
    /\ qAgent.totalUpdates = 2
    /\ qAgent.q[last.state[1]][last.state[2]][last.action] # Zero
    /\ \E a \in 0 .. 3 :
          /\ a # last.action
          /\ qAgent.q[last.state[1]][last.state[2]][a] # Zero
          /\ qAgent.q[last.state[1]][last.state[2]][a] #
                 qAgent.q[last.state[1]][last.state[2]][last.action]

(***************************************************************************)
(* C17. act, getQ and getMaxQ never change a Q-table entry; getQ(row, col) *)
(* returns the 4 current action values of the cell as a snapshot: changing *)
(* the returned array does not change the table.                           *)
(***************************************************************************)
ReadsOnly(l) == l.op \in {"act", "getQ", "getMaxQ", "write returned"}

C17_ReadsLeaveTable ==
    /\ [][ReadsOnly(last') => (qAgent' = qAgent /\ signalAgent' = signalAgent)]_vars
    /\ [](last.op = "getQ" =>
             /\ DOMAIN last.result.values = 0 .. 3
             /\ \A a \in 0 .. 3 : last.result.values[a] = qAgent.q[last.row][last.col][a])
    /\ [](last.op = "getMaxQ" => last.value = Greatest(qAgent.q[last.row][last.col]))

\* the caller has changed an element of the array getQ returned for a cell
\* with a learned value: the table still holds the old element
C17_Witness ==
    /\ last.op = "write returned"
    /\ last.values[last.index] \in Writes
    /\ qAgent.q[last.row][last.col][last.index] \notin Writes
    /\ qAgent.q[last.row][last.col][last.index] # Zero

(***************************************************************************)
(* The layout and the signal field under the calls that only read them.    *)
(***************************************************************************)
\* the calls that take the layout or the field as input only
ReadingCalls == {"read", "gradient", "_bfsDistances", "_stateIndex", "act", "learn",
                 "step", "reset"}

\* C18: read, gradient, _bfsDistances, SignalQAgent._stateIndex/act/learn,
\* GridWorld.step and GridWorld.reset leave the layout as it was, and leave
\* every field entry and the emitter list as they were; compute() too leaves
\* the layout and the emitter list.
C18_LayoutAndFieldReadOnly ==
    [][/\ env'.layout = env.layout
       /\ signalField'.emitters = signalField.emitters
       /\ last'.op \in ReadingCalls => signalField' = signalField]_vars

\* a step has moved the agent, learn() has taken its result, and the field
\* is still the one compute() gives on the layout
C18_Witness ==
    /\ last.op = "learn"
    /\ last.nextState # last.state
    /\ signalAgent.totalUpdates = 1
    /\ env.steps > 0
    /\ signalField.field = FieldOn(env.layout)

(***************************************************************************)
(* The step limit of an episode.                                           *)
(***************************************************************************)
\* C20: after any sequence of step calls since the last reset, steps >=
\* maxSteps implies done, and steps never exceeds maxSteps (every turn of
\* the loop 'while (!env.done) step' counts one step, so the loop takes at
\* most maxSteps turns).
C20_EpisodeEndsAtMaxSteps ==
    /\ env.steps >= env.maxSteps => env.done
    /\ env.steps <= env.maxSteps

\* the last step() bumped into the boundary or a wall, the count is past
\* the limit and the episode is still running
C20_Overrun ==
    /\ last.op = "step"
    /\ last.result.state = last.state
    /\ ~last.result.done
    /\ env.steps > env.maxSteps
    /\ ~env.done

(***************************************************************************)
(* compute() after a change of the layout.                                 *)
(***************************************************************************)
\* the goal and pit cells of the layout are the emitters the field holds
SameEmitters == ScanEmitters(env.layout, 1) = signalField.emitters

\* C19, as stated: after the layout is changed, compute() leaves the field
\* a SignalField newly constructed on the changed layout would hold.
C19_ComputeReflectsLayout ==
    last.op = "compute" => signalField.field = FieldOn(env.layout)

\* C19, for changes among empty and wall cells: when the changed layout has
\* its goal and pit cells where the field's emitter list has them, compute()
\* leaves the field a SignalField newly constructed on the changed layout
\* would hold.
C19_ComputeReflectsWalls ==
    (last.op = "compute" /\ SameEmitters) => signalField.field = FieldOn(env.layout)

\* compute() has replaced the field after a change that kept the emitters,
\* and the field is the one of a new SignalField on the changed layout
C19_Witness ==
    /\ last.op = "compute"
    /\ last.changed
    /\ SameEmitters
    /\ signalField.field = FieldOn(env.layout)

(***************************************************************************)
(* GridWorld.step, call by call.                                           *)
(***************************************************************************)
\* the cell step(action) aims at from the position of e
TargetCell(e, action) ==
    <<e.agentRow + DELTAS[action + 1][1], e.agentCol + DELTAS[action + 1][2]>>

\* the target is out of bounds or a wall
Blocked(e, action) ==
    \/ TargetCell(e, action) \notin Cells
    \/ e.layout[TargetCell(e, action)[1]][TargetCell(e, action)[2]] = CELL_WALL

\* what a bump does: the position stays, the call returns -0.01 and
\* done = false, steps grows by one and totalReward falls by 0.01
BumpEffect ==
    /\ GetState(env') = GetState(env)
    /\ last'.result = [state |-> GetState(env), reward |-> Num(-1, 100), done |-> FALSE]
    /\ env'.steps = env.steps + 1
    /\ env'.totalReward = Sub(env.totalReward, Num(1, 100))

\* C21, as stated: every step whose target cell is out of bounds or a wall
\* leaves the position, returns reward -0.01 and done = false, and counts
\* as a step.
C21_BumpCounts ==
    [][(last'.op = "step" /\ Blocked(env, last'.action)) => BumpEffect]_vars

\* C21, for an episode that is not done: a step whose target cell is out of
\* bounds or a wall leaves the position, returns reward -0.01 and
\* done = false, and counts as a step.
C21_BumpCountsWhileRunning ==
    [][(last'.op = "step" /\ ~env.done /\ Blocked(env, last'.action)) => BumpEffect]_vars

\* a step has bumped into a wall: the agent is where it was, one step on
C21_Witness ==
    /\ last.op = "step"
    /\ TargetCell(env, last.action) \in Cells
    /\ Blocked(env, last.action)
    /\ last.result = [state |-> last.state, reward |-> Num(-1, 100), done |-> FALSE]
    /\ GetState(env) = last.state
    /\ env.steps = last.steps + 1

\* the kind of the cell the agent of e stands on
CellUnder(e) == e.layout[e.agentRow][e.agentCol]

\* the step from env to env' moved the agent onto a cell of one of the kinds
MovedOnto(kinds) == GetState(env') # GetState(env) /\ CellUnder(env') \in kinds

C29_DoneUntilReset ==
    [][/\ (env.done /\ last'.op = "step") =>
            /\ last'.result = [state |-> GetState(env), reward |-> Zero, done |-> TRUE]
            /\ env' = env
       /\ (env.done /\ last'.op # "reset") => env' = env
       /\ last'.op = "reset" =>
            /\ GetState(env') = env.startPos
            /\ last'.state = env.startPos
            /\ ~env'.done
            /\ env'.steps = 0
            /\ env'.totalReward = Zero
            /\ env' = [env EXCEPT !.agentRow = env'.agentRow, !.agentCol = env'.agentCol,
                                  !.done = FALSE, !.steps = 0, !.totalReward = Zero]]_vars

\* step() was called on a finished episode: it returned reward 0 and the
\* counters are those of the ending
C29_Witness ==
    /\ last.op = "step"
    /\ env.done
    /\ last.result = [state |-> GetState(env), reward |-> Zero, done |-> TRUE]
    /\ last.steps = env.steps
    /\ env.steps > 0

\* C27: with the start on an in-bounds cell that is not a wall, after any
\* sequence of reset and step calls the agent's position is a cell of the
\* grid and not a wall, so it indexes a row of a Q-table of the grid's size.
C27_AgentOnFreeCell ==
    /\ GetState(env) \in Cells
    /\ env.layout[env.agentRow][env.agentCol] # CELL_WALL

\* the agent has walked off the start and then stepped against a wall: it
\* stands on a free cell next to the wall
C27_Witness ==
    /\ last.op = "step"
    /\ GetState(env) # env.startPos
    /\ TargetCell(env, last.action) \in Cells
    /\ Blocked(env, last.action)
    /\ last.result.state = last.state
    /\ C27_AgentOnFreeCell

(***************************************************************************)
(* One passability rule for the BFS and for step().                        *)
(***************************************************************************)
\* _bfsDistances started on cell a reaches b in its first round: b is
\* enqueued while a is expanded
Expands(layout, a, b) ==
    /\ b \in Cells
    /\ BfsDistances(layout, a[1], a[2])[b[1]][b[2]] = 1

\* the environment with the agent put on cell a of a running episode
PlacedOn(e, a) == [e EXCEPT !.agentRow = a[1], !.agentCol = a[2], !.done = FALSE]

\* step(action) from cell a moves the agent to the cell it aims at
StepMoves(e, a, action) ==
    GetState(Step(PlacedOn(e, a), action).world) = TargetCell(PlacedOn(e, a), action)

\* C25: for every cell A that is not a wall and every direction, the BFS
\* expands from A to the neighbour B exactly when step from A in that
\* direction, episode not done, moves the agent to B, and that is exactly
\* when B is in bounds and not a wall; the step() calls made along the
\* episodes agree with the BFS in the same way.
C25_SamePassability ==
    /\ [](\A a \in Cells, action \in Actions :
            env.layout[a[1]][a[2]] # CELL_WALL =>
               /\ Expands(env.layout, a, TargetCell(PlacedOn(env, a), action))
                     <=> StepMoves(env, a, action)
               /\ StepMoves(env, a, action) <=> ~Blocked(PlacedOn(env, a), action))
    /\ [][(last'.op = "step" /\ ~env.done) =>
             (GetState(env') = TargetCell(env, last'.action)
                <=> Expands(env.layout, GetState(env), TargetCell(env, last'.action)))]_vars

\* a step against a wall that the BFS does not expand into, made from a
\* cell with a free neighbour that both the BFS and step() accept
C25_Witness ==
    /\ last.op = "step"
    /\ last.result.state = last.state
    /\ TargetCell(env, last.action) \in Cells
    /\ ~Expands(env.layout, GetState(env), TargetCell(env, last.action))
    /\ \E action \in Actions :
          /\ Expands(env.layout, GetState(env), TargetCell(env, action))
          /\ StepMoves(env, GetState(env), action)

(***************************************************************************)
(* syncQParams and the inputs.                                             *)
(***************************************************************************)
\* the default syncQParams falls back to, per parameter
ParamDefault(id) ==
    IF id = "alpha" THEN Num(1, 10)
    ELSE IF id = "gamma" THEN Num(95, 100)
    ELSE Num(1, 10)

\* the parameter of the Q-learning agent an input feeds
ParamOf(agent, id) ==
    IF id = "alpha" THEN agent.alpha
    ELSE IF id = "gamma" THEN agent.gamma
    ELSE agent.epsilon

\* C24: after syncQParams, each of alpha, gamma and epsilon is the number
\* entered whenever the input is a number, 0 included, and is the default
\* 0.1 / 0.95 / 0.1 only when the input is not a number.  (An input left
\* empty is not constrained here.)
C24_SyncTakesEveryNumber ==
    last.op = "syncQParams" =>
        \A id \in ParamIds :
            main.inputs[id] # << >> =>
                ParamOf(qAgent, id) = IF NumberOf(main.inputs[id]) = NaN
                                        THEN ParamDefault(id)
                                        ELSE NumberOf(main.inputs[id])

\* the user typed 0 into the epsilon input and syncQParams left the default
C24_ZeroReplaced ==
    /\ last.op = "syncQParams"
    /\ last.id = "epsilon"
    /\ last.text = <<"0">>
    /\ NumberOf(main.inputs.epsilon) = Zero
    /\ qAgent.epsilon = Num(1, 10)

(***************************************************************************)
(* The episode loop of runOneEpisode and runBatch.                         *)
(***************************************************************************)
LoopCalls == {"act", "step", "learn"}

\* C23: with the Q-learning agent selected, in runOneEpisode and runBatch
\* every env.step comes right after one act on the state before the step
\* and is followed at once by one learn call whose arguments are that
\* state, the chosen action, and the reward, state and done flag the step
\* returned; act is called only while done is false, so no learn follows
\* the terminal transition.
C23_ActStepLearn ==
    [][main.agentSelect = "qlearn" =>
         /\ last'.op = "act" =>
               /\ ~env.done
               /\ last'.state = GetState(env)
               /\ last.op \notin {"act", "step"}
         /\ last.op = "act" => last'.op = "step"
         /\ last'.op = "step" =>
               /\ last.op = "act"
               /\ last'.state = GetState(env) /\ last'.state = last.state
               /\ last'.action = last.action
               /\ last'.result = [state |-> GetState(env'), reward |-> last'.result.reward,
                                  done |-> env'.done]
         /\ last.op = "step" => last'.op = "learn"
         /\ last'.op = "learn" =>
               /\ last.op = "step"
               /\ last' = [op |-> "learn", in |-> last.in, state |-> last.state,
                           action |-> last.action, reward |-> last.result.reward,
                           nextState |-> last.result.state, done |-> last.result.done]
               /\ qAgent' = QLearn(qAgent, last.state, last.action, last.result.reward,
                                   last.result.state, last.result.done)
         /\ (last.op = "learn" /\ last.done) => last'.op \notin LoopCalls]_vars

\* the second learn call of a runBatch episode of the Q-learning agent took
\* the terminal transition onto the goal
C23_Witness ==
    /\ main.agentSelect = "qlearn"
    /\ last.op = "learn"
    /\ last.in = "runBatch"
    /\ last.done
    /\ last.nextState # last.state
    /\ CellUnder(env) = CELL_GOAL
    /\ env.steps = 2
    /\ qAgent.totalUpdates >= 2

(***************************************************************************)
(* Handlers entered while an animated episode sleeps.                      *)
(***************************************************************************)
\* C28: while runOneEpisode is in progress (running = true) the four
\* buttons are disabled; a keydown, a runBatch call or a second
\* runOneEpisode call returns at once and leaves the environment, the agent
\* and the page state as they are; the resetStats and resetQ listeners do
\* not run; the environment changes only by the step of the episode's own
\* loop; and when the episode has been recorded running is false and the
\* buttons are enabled.
C28_EpisodeNotDisturbed ==
    /\ [](/\ main.disabled = main.running
          /\ main.running = (main.handler = "runOneEpisode"))
    /\ [][main.running =>
            /\ last'.op \in {"keydown", "runBatch", "runOneEpisode"} =>
                  /\ ~last'.entered
                  /\ env' = env /\ qAgent' = qAgent /\ main' = main
            /\ last'.op \notin {"resetStats click", "resetQ click"}
            /\ env' # env => (last'.op = "step" /\ last'.in = "runOneEpisode")
            /\ ~main'.running =>
                  (last'.op = "recordEpisode" /\ env.done /\ ~main'.disabled)]_vars

\* an arrow key was pressed while the episode sleeps after its first step:
\* the listener returned and the episode stands where the loop left it
C28_Witness ==
    /\ main.running
    /\ main.pc = "sleep"
    /\ last.op = "keydown"
    /\ last.key = "ArrowUp"
    /\ ~last.entered
    /\ env.steps = 1
    /\ ~env.done

(***************************************************************************)
(* The episode statistics.                                                 *)
(***************************************************************************)
\* the counter of stats a cell kind is counted in
CounterOf(cell) ==
    IF cell = CELL_GOAL THEN "goals" ELSE IF cell = CELL_PIT THEN "pits" ELSE "timeouts"

Counters == {"goals", "pits", "timeouts"}

\* C30: after any sequence of episodes, resetStats and resetQ clicks,
\* stats.episodes = stats.goals + stats.pits + stats.timeouts; the end of
\* an episode adds one to episodes and one to exactly one of the three
\* counters, timeouts only when the agent stands on a cell that is neither
\* goal nor pit; an episode is recorded once, when its loop has ended, and
\* nothing else changes stats but the two reset clicks, which zero it.
C30_StatsAddUp ==
    /\ [](main.stats.episodes =
             main.stats.goals + main.stats.pits + main.stats.timeouts)
    /\ [][/\ last'.op = "recordEpisode" =>
                /\ env.done
                /\ last.op \in {"learn", "resume"}
                /\ main'.stats.episodes = main.stats.episodes + 1
                /\ \A k \in Counters :
                      main'.stats[k] = main.stats[k]
                                       + (IF k = CounterOf(CellUnder(env)) THEN 1 ELSE 0)
                /\ main'.stats.timeouts > main.stats.timeouts =>
                      CellUnder(env) \notin {CELL_GOAL, CELL_PIT}
          /\ last'.op \in {"resetStats click", "resetQ click"} => main'.stats = ZeroStats
          /\ main'.stats # main.stats =>
                last'.op \in {"recordEpisode", "resetStats click", "resetQ click"}
          /\ last.op = "recordEpisode" => last'.op # "recordEpisode"]_vars

\* three episodes are counted, one of each ending
C30_Witness ==
    /\ last.op = "recordEpisode"
    /\ main.stats.episodes = 3
    /\ main.stats.goals = 1
    /\ main.stats.pits = 1
    /\ main.stats.timeouts = 1

=============================================================================
